---- MODULE Spec2Model ----
(***************************************************************************)
(* A model of the concept-parameter reasoning engine                       *)
(* (src/concept_parameter_model.js) and of the relation table of the       *)
(* mind model (src/mind_model.js).                                         *)
(*                                                                         *)
(* Numbers.  The JavaScript code computes with doubles.  Here every real   *)
(* quantity (activation, weight, frequency, strength, threshold, decay) is *)
(* an integer number of thousandths: 1.0 is 1000, 0.3 is 300.  A product   *)
(* of two such quantities is (a * b) \div 1000.                            *)
(*                                                                         *)
(* Time.  Date.now() is the variable now, counted in seconds (1000 ms).    *)
(* A freshly built Concept has lastActivated = 0, the epoch, which lies    *)
(* far before any reading of the clock.                                    *)
(*                                                                         *)
(* Objects.  Concept objects live in heap; a reference is an index of      *)
(* heap.  A JavaScript Map is a sequence in insertion order.               *)
(*                                                                         *)
(* Strings.  The Chinese display labels of the relation types are written  *)
(* in pinyin: "shi-yi-zhong" is the label of "is-a".                       *)
(***************************************************************************)
EXTENDS Integers, Sequences, FiniteSets, TLC

VARIABLES
  now,                         \* Date.now()
  heap,                        \* the Concept objects ever constructed
  concepts,                    \* ConceptParameterModel.concepts: <<[id, ref]>>
  relationshipTypes,           \* registry: type id -> Chinese label
  relationshipTypeMap,         \* Chinese label -> type id
  relationshipTypeReverseMap,  \* type id -> Chinese label
  workingMemory,               \* WorkingMemory.concepts: <<[id, concept, activation, timestamp]>>
  capacity,                    \* WorkingMemory.capacity
  thinkingHistory,             \* ConceptParameterModel.thinkingHistory
  pc,                          \* "idle", or "spreading" inside spreadActivation's loop
  queue,                       \* spreadActivation's BFS queue
  activatedConcepts,           \* spreadActivation's result map
  spreadArgs,                  \* the running spreadActivation call's arguments
  mind,                        \* the MindModel: its relation-type registry
  mindHeap,                    \* the Concept objects of the MindModel, by reference
  mindConcepts,                \* the MindModel's concepts map, in insertion order
  autoDiscoveryInterval,       \* the timer handle the engine holds, 0 for null
  timers,                      \* the interval timers active in the host
  lastCall,                    \* the last call made: its arguments and what it returned
  prevCall                     \* the call made before lastCall

vars == <<now, heap, concepts, relationshipTypes, relationshipTypeMap,
          relationshipTypeReverseMap, workingMemory, capacity, thinkingHistory,
          pc, queue, activatedConcepts, spreadArgs, mind, mindHeap, mindConcepts,
          autoDiscoveryInterval, timers, lastCall, prevCall>>

engineVars == <<concepts, relationshipTypes, relationshipTypeMap,
                relationshipTypeReverseMap, thinkingHistory>>

spreadVars == <<pc, queue, activatedConcepts, spreadArgs>>

mindVars == <<mind, mindHeap, mindConcepts>>

timerVars == <<autoDiscoveryInterval, timers>>

(***************************************************************************)
(* Bounds of the model.                                                    *)
(***************************************************************************)
MaxNow == 3          \* the clock stops after this many seconds past StartTime
MaxObjects == 3      \* Concept objects constructed in one run
MaxEdgeRecords == 4  \* edge records held by all concepts together
MaxActivations == 3  \* direct activate calls on one concept
MaxCapacity == 2     \* largest capacity a WorkingMemory is built with
MaxHistory == 2      \* records in thinkingHistory
MaxLearn == 11       \* learn calls in one run
MaxDepthArg == 3     \* largest maxDepth argument of spreadActivation
MaxSpreads == 1      \* stepwise spreadActivation calls in one run
MaxChainCalls == 5   \* addRelationship calls that build an is-a graph
MaxStrengthLearns == 2 \* learn calls in a run of SpecStrength
MaxTimers == 2       \* timer handles the host hands out
MaxMindObjects == 4  \* Concept objects the mind model constructs in one run
MaxMindEdges == 4    \* edge records held by the mind model's concepts

(***************************************************************************)
(* Arithmetic on thousandths.                                              *)
(***************************************************************************)
Min(a, b) == IF a < b THEN a ELSE b

Max(a, b) == IF a > b THEN a ELSE b

Mul(a, b) == (a * b) \div 1000

NoCall == [op |-> "none"]

(***************************************************************************)
(* Math.exp(-dt * 0.0001) for dt seconds (dt * 1000 ms): exp(-dt / 10).    *)
(* The table holds dt = 0 .. 8; beyond it the factor is below 0.41 and,    *)
(* for a concept never activated (dt counted from the epoch), 0.  A clock  *)
(* set back makes dt negative and the factor larger than 1.                *)
(***************************************************************************)
DecayTable == <<1000, 904, 818, 740, 670, 606, 548, 496, 449>>

GrowTable == <<1105, 1221, 1349, 1491>>

StartTime == Len(DecayTable) + Len(GrowTable)

DecayFactor(dt) ==
  IF dt >= 0
  THEN IF dt < Len(DecayTable) THEN DecayTable[dt + 1] ELSE 0
  ELSE IF -dt <= Len(GrowTable) THEN GrowTable[-dt] ELSE GrowTable[Len(GrowTable)]

(***************************************************************************)
(* class Concept                                                           *)
(***************************************************************************)
DefaultThreshold == 300

\* new Concept(id, name, attributes): attrs holds the caller's attributes and
\* the text-valued reserved ones; the numeric reserved attributes are fields.
Concept(id, attributes) ==
  [id |-> id,
   attrs |-> attributes,
   activation |-> 0,
   weight |-> 1000,
   frequency |-> 1000,
   relationships |-> <<>>,
   lastActivated |-> 0]

\* The position of relation type relationType in a relationships map, 0 if absent.
TypeIndex(rels, relationType) ==
  IF \E i \in 1..Len(rels) : rels[i].type = relationType
  THEN CHOOSE i \in 1..Len(rels) : rels[i].type = relationType
  ELSE 0

\* The position of target in one relation type's edge map, 0 if absent.
TargetIndex(edges, target) ==
  IF \E i \in 1..Len(edges) : edges[i].target = target
  THEN CHOOSE i \in 1..Len(edges) : edges[i].target = target
  ELSE 0

EdgeRecord(target, strength, t) ==
  [target |-> target, strength |-> strength,
   activationThreshold |-> DefaultThreshold, lastUsed |-> t]

\* Map.set(targetConcept, {...}) on one relation type's edge map.
SetEdge(edges, target, strength, t) ==
  LET i == TargetIndex(edges, target)
  IN IF i = 0
     THEN Append(edges, EdgeRecord(target, strength, t))
     ELSE [edges EXCEPT ![i] = EdgeRecord(target, strength, t)]

\* Concept.addRelationship(relationType, targetConcept, strength) on the
\* relationships map rels of one concept, at time t.
ConceptAddRelationship(rels, relationType, target, strength, t) ==
  LET withType == IF TypeIndex(rels, relationType) = 0
                  THEN Append(rels, [type |-> relationType, edges |-> <<>>])
                  ELSE rels
      i == TypeIndex(withType, relationType)
  IN [withType EXCEPT ![i].edges = SetEdge(@, target, strength, t)]

\* Concept.getRelationships(relationType): one type's edge map, empty if absent.
GetRelationships(rels, relationType) ==
  LET i == TypeIndex(rels, relationType)
  IN IF i = 0 THEN <<>> ELSE rels[i].edges

\* Whether the concept object c holds an edge to target under relationType.
HasEdge(c, relationType, target) ==
  TargetIndex(GetRelationships(c.relationships, relationType), target) # 0

\* The edge record of c to target under relationType (HasEdge must hold).
EdgeOf(c, relationType, target) ==
  LET edges == GetRelationships(c.relationships, relationType)
  IN edges[TargetIndex(edges, target)]

\* The clamp of Concept.activate: Math.min(1.0, x).
ClampActivation(x) == Min(1000, x)

\* Concept.activate(activationLevel) on the object c at time t: the object after.
Activate(c, activationLevel, t) ==
  LET timeSinceLastActivation == t - c.lastActivated
      decayFactor == DecayFactor(timeSinceLastActivation)
      currentActivation == Mul(c.activation, decayFactor)
  IN [c EXCEPT !.activation = ClampActivation(currentActivation + Mul(activationLevel, c.weight)),
               !.lastActivated = t,
               !.frequency = @ + 100]

\* Concept.deactivate()
Deactivate(c) ==
  LET a == Mul(c.activation, 900)
  IN [c EXCEPT !.activation = IF a < 10 THEN 0 ELSE a]

\* Concept.getActivationLevel() at time t.
GetActivationLevel(c, t) == Mul(c.activation, DecayFactor(t - c.lastActivated))

(***************************************************************************)
(* class WorkingMemory                                                     *)
(***************************************************************************)
DefaultCapacity == 7

\* JavaScript truthiness of a concept id: the empty string is falsy.
Truthy(id) == id # ""

\* The position of the entry keyed id, 0 if absent.
EntryIndex(wm, id) ==
  IF \E i \in 1..Len(wm) : wm[i].id = id
  THEN CHOOSE i \in 1..Len(wm) : wm[i].id = id
  ELSE 0

\* The test of addConcept's scan: entry e replaces the pick made so far
\* (lowestActivation and oldestTime start at Infinity: best = 0).
Replaces(wm, e, best) ==
  \/ best = 0
  \/ e.activation < wm[best].activation
  \/ (e.activation = wm[best].activation /\ e.timestamp < wm[best].timestamp)

\* The scan of addConcept over the entries i.. in Map order: the position of
\* the entry it ends up naming in oldestId.
RECURSIVE EvictScan(_, _, _)
EvictScan(wm, i, best) ==
  IF i > Len(wm) THEN best
  ELSE EvictScan(wm, i + 1, IF Replaces(wm, wm[i], best) THEN i ELSE best)

\* The sequence s without its element at position i.
RemoveAt(s, i) == [j \in 1..(Len(s) - 1) |-> IF j < i THEN s[j] ELSE s[j + 1]]

\* if (oldestId) this.concepts.delete(oldestId)
DeleteOldest(wm, best) ==
  IF best # 0 /\ Truthy(wm[best].id) THEN RemoveAt(wm, best) ELSE wm

\* WorkingMemory.addConcept(concept, activation) at time t, for the concept
\* object concept whose id is id: the entries after.
WMAddConcept(wm, cap, concept, id, activation, t) ==
  LET entry == [id |-> id, concept |-> concept, activation |-> activation, timestamp |-> t]
      i == EntryIndex(wm, id)
  IN IF i # 0
     THEN [wm EXCEPT ![i] = entry]
     ELSE LET kept == IF Len(wm) >= cap
                      THEN DeleteOldest(wm, EvictScan(wm, 1, 0))
                      ELSE wm
          IN Append(kept, entry)

(***************************************************************************)
(* The relation-type registry of ConceptParameterModel and of MindModel.   *)
(***************************************************************************)
\* Map.set(k, v) on a map whose order of keys is not read.
MapSet(f, k, v) == [x \in DOMAIN f \cup {k} |-> IF x = k THEN v ELSE f[x]]

\* addRelationshipType(type, chineseType, description) on the registry reg.
AddRelationshipType(reg, type, chineseType) ==
  [types |-> MapSet(reg.types, type, chineseType),
   map |-> MapSet(reg.map, chineseType, type),
   rmap |-> MapSet(reg.rmap, type, chineseType)]

EmptyRegistry == [types |-> <<>>, map |-> <<>>, rmap |-> <<>>]

RECURSIVE RegisterAll(_, _)
RegisterAll(reg, pairs) ==
  IF pairs = <<>> THEN reg
  ELSE RegisterAll(AddRelationshipType(reg, Head(pairs)[1], Head(pairs)[2]), Tail(pairs))

\* The relation types the constructor of ConceptParameterModel registers.
InitialTypes ==
  << <<"is-a", "shi-yi-zhong">>, <<"has-a", "you">>, <<"related-to", "xiang-guan">>,
     <<"causes", "dao-zhi">>, <<"similar-to", "xiang-si">>, <<"needs", "xu-yao">>,
     <<"part-of", "shi-de-yi-bu-fen">>, <<"opposite-to", "xiang-fan">> >>

\* The relation types the constructor of MindModel registers.
MindInitialTypes ==
  << <<"is-a", "shi-yi-zhong">>, <<"has-a", "you">>, <<"related-to", "xiang-guan">>,
     <<"causes", "dao-zhi">>, <<"similar-to", "xiang-si">>, <<"needs", "xu-yao">> >>

\* getRelationshipTypeEnglish(chineseType): map.get(chineseType) || chineseType
GetRelationshipTypeEnglish(reg, chineseType) ==
  IF chineseType \in DOMAIN reg.map /\ reg.map[chineseType] # ""
  THEN reg.map[chineseType]
  ELSE chineseType

\* getRelationshipTypeChinese(type)
GetRelationshipTypeChinese(reg, type) ==
  IF type \in DOMAIN reg.rmap /\ reg.rmap[type] # ""
  THEN reg.rmap[type]
  ELSE type

\* The table reverseMap of ConceptParameterModel.getReverseRelationType.
reverseMap ==
  [r \in {"is-a", "has-a", "causes", "needs", "similar-to", "opposite-to"} |->
     CASE r = "is-a" -> "has-subtype"
       [] r = "has-a" -> "part-of"
       [] r = "causes" -> "caused-by"
       [] r = "needs" -> "needed-by"
       [] r = "similar-to" -> "similar-to"
       [] r = "opposite-to" -> "opposite-to"]

\* The table reverseMap of MindModel.getReverseRelationType.
mindReverseMap ==
  [r \in {"is-a", "has-a", "causes", "needs", "similar-to"} |->
     CASE r = "is-a" -> "has-subtype"
       [] r = "has-a" -> "part-of"
       [] r = "causes" -> "caused-by"
       [] r = "needs" -> "needed-by"
       [] r = "similar-to" -> "similar-to"]

\* reverseMap[relationType] || "related-to"
ReverseType(table, relationType) ==
  IF relationType \in DOMAIN table THEN table[relationType] ELSE "related-to"

\* The switch of getReverseRelationType: the label of a reverse type.
ChineseReverseType(reverseType) ==
  CASE reverseType = "has-subtype" -> "you-zi-lei-xing"
    [] reverseType = "part-of" -> "shi-de-yi-bu-fen"
    [] reverseType = "caused-by" -> "you-dao-zhi"
    [] reverseType = "needed-by" -> "bei-xu-yao"
    [] OTHER -> "xiang-guan"

\* getReverseRelationType(relationType) with the table of the class: what it
\* returns and the registry after its auto-registration.
GetReverseRelationType(table, reg, relationType) ==
  LET reverseType == ReverseType(table, relationType)
  IN [result |-> reverseType,
      reg |-> IF reverseType \notin DOMAIN reg.rmap
              THEN AddRelationshipType(reg, reverseType, ChineseReverseType(reverseType))
              ELSE reg]

(***************************************************************************)
(* class ConceptParameterModel: construction and basic operations          *)
(***************************************************************************)
Registry ==
  [types |-> relationshipTypes, map |-> relationshipTypeMap,
   rmap |-> relationshipTypeReverseMap]

SetRegistry(reg) ==
  /\ relationshipTypes' = reg.types
  /\ relationshipTypeMap' = reg.map
  /\ relationshipTypeReverseMap' = reg.rmap

\* The attributes object the Concept constructor builds: the caller's keys,
\* type forced to 'common', category defaulted to 'unknown'.
MergeAttributes(attributes) ==
  [k \in DOMAIN attributes \cup {"type", "category"} |->
     IF k = "type" THEN "common"
     ELSE IF k = "category"
          THEN IF "category" \in DOMAIN attributes /\ attributes["category"] # ""
               THEN attributes["category"]
               ELSE "unknown"
          ELSE attributes[k]]

\* The position of id in the concepts map, 0 if absent.
ConceptIndex(cs, id) ==
  IF \E i \in 1..Len(cs) : cs[i].id = id
  THEN CHOOSE i \in 1..Len(cs) : cs[i].id = id
  ELSE 0

\* getConcept(id): the reference stored under id, 0 for undefined.
GetConcept(cs, id) ==
  LET i == ConceptIndex(cs, id)
  IN IF i = 0 THEN 0 ELSE cs[i].ref

\* this.concepts.set(id, concept)
ConceptsSet(cs, id, ref) ==
  LET i == ConceptIndex(cs, id)
  IN IF i = 0
     THEN Append(cs, [id |-> id, ref |-> ref])
     ELSE [cs EXCEPT ![i].ref = ref]

\* A mirror that copies the authored strength.
ReverseStrengthCopied(strength) == strength

\* The strength of the mirrored edge: strength * 0.8.
ReverseStrength(strength) == Mul(strength, 800)

\* The relation type the forward edge is stored under.
ForwardType(reg, relationType) == GetRelationshipTypeEnglish(reg, relationType)

\* An addRelationship that registers the reverse type of its relationType
\* even when a concept id is unknown.
UnknownIdRegisters(h, reg, relationType) ==
  [heap |-> h,
   reg |-> GetReverseRelationType(reverseMap, reg,
                                  GetRelationshipTypeEnglish(reg, relationType)).reg]

\* addRelationship when sourceId or targetId is unknown: the body of
\* `if (source && target)` is skipped.
UnknownIdResult(h, reg, relationType) == [heap |-> h, reg |-> reg]

\* addRelationship(sourceId, relationType, targetId, strength) at time t on
\* the objects h, the concepts map cs and the registry reg: the objects and
\* the registry after.
AddRelationshipResult(h, cs, reg, sourceId, relationType, targetId, strength, t) ==
  LET source == GetConcept(cs, sourceId)
      target == GetConcept(cs, targetId)
  IN IF source # 0 /\ target # 0
     THEN LET englishRelationType == ForwardType(reg, relationType)
              h1 == [h EXCEPT ![source].relationships =
                       ConceptAddRelationship(@, englishRelationType, target, strength, t)]
              rev == GetReverseRelationType(reverseMap, reg, englishRelationType)
              h2 == IF rev.result # ""
                    THEN [h1 EXCEPT ![target].relationships =
                            ConceptAddRelationship(@, rev.result, source,
                                                   ReverseStrength(strength), t)]
                    ELSE h1
          IN [heap |-> h2, reg |-> rev.reg]
     ELSE UnknownIdResult(h, reg, relationType)

\* The number of edge records the objects h hold.
RECURSIVE SumLen(_)
SumLen(rels) == IF rels = <<>> THEN 0 ELSE Len(Head(rels).edges) + SumLen(Tail(rels))

RECURSIVE EdgeCount(_)
EdgeCount(h) == IF h = <<>> THEN 0 ELSE SumLen(Head(h).relationships) + EdgeCount(Tail(h))

(***************************************************************************)
(* The state after construction.                                           *)
(***************************************************************************)
InitEngine ==
  /\ now = StartTime
  /\ heap = <<>>
  /\ concepts = <<>>
  /\ relationshipTypes = RegisterAll(EmptyRegistry, InitialTypes).types
  /\ relationshipTypeMap = RegisterAll(EmptyRegistry, InitialTypes).map
  /\ relationshipTypeReverseMap = RegisterAll(EmptyRegistry, InitialTypes).rmap
  /\ workingMemory = <<>>
  /\ capacity = DefaultCapacity
  /\ thinkingHistory = <<>>
  /\ pc = "idle"
  /\ queue = <<>>
  /\ activatedConcepts = <<>>
  /\ spreadArgs = NoCall
  /\ mind = RegisterAll(EmptyRegistry, MindInitialTypes)
  /\ mindHeap = <<>>
  /\ mindConcepts = <<>>
  /\ autoDiscoveryInterval = 0
  /\ timers = {}
  /\ lastCall = NoCall
  /\ prevCall = NoCall

(***************************************************************************)
(* Inputs.                                                                 *)
(***************************************************************************)
EmptyAttrs == <<>>

ConceptIds == {"a", "b"}

AttributeInputs == {EmptyAttrs}

\* Relation-type texts: registered ids, the label of is-a, a free text.
RelationInputs == {"is-a", "similar-to", "shi-yi-zhong", "likes"}

StrengthInputs == {500, 1000}

\* Activation levels, one of them negative.
LevelInputs == {-500, 0, 500, 1000}

(***************************************************************************)
(* The clock.                                                              *)
(***************************************************************************)
Tick ==
  /\ now < StartTime + MaxNow
  /\ now' = now + 1
  /\ UNCHANGED <<heap, engineVars, workingMemory, capacity, spreadVars, mindVars, timerVars,
                 lastCall, prevCall>>

\* The wall clock set back (Date.now() is not monotonic).
ClockBack ==
  /\ now > StartTime
  /\ now' = now - 1
  /\ UNCHANGED <<heap, engineVars, workingMemory, capacity, spreadVars, mindVars, timerVars,
                 lastCall, prevCall>>

(***************************************************************************)
(* Calls.                                                                  *)
(***************************************************************************)
\* addConcept(id, name, attributes)
AddConcept(id, attributes) ==
  /\ pc = "idle"
  /\ Len(heap) < MaxObjects
  /\ heap' = Append(heap, Concept(id, MergeAttributes(attributes)))
  /\ concepts' = ConceptsSet(concepts, id, Len(heap) + 1)
  /\ lastCall' = [op |-> "addConcept", id |-> id]
  /\ UNCHANGED <<now, relationshipTypes, relationshipTypeMap,
                 relationshipTypeReverseMap, thinkingHistory, workingMemory,
                 capacity, spreadVars, mindVars, timerVars, prevCall>>

\* addRelationship(sourceId, relationType, targetId, strength)
AddRelationship(sourceId, relationType, targetId, strength) ==
  /\ pc = "idle"
  /\ EdgeCount(heap) + 2 <= MaxEdgeRecords
  /\ LET r == AddRelationshipResult(heap, concepts, Registry, sourceId,
                                    relationType, targetId, strength, now)
     IN /\ heap' = r.heap
        /\ SetRegistry(r.reg)
  /\ lastCall' = [op |-> "addRelationship", sourceId |-> sourceId,
                  relationType |-> relationType, targetId |-> targetId,
                  strength |-> strength,
                  source |-> GetConcept(concepts, sourceId),
                  target |-> GetConcept(concepts, targetId),
                  canonical |-> ForwardType(Registry, relationType)]
  /\ UNCHANGED <<now, concepts, thinkingHistory, workingMemory, capacity,
                 spreadVars, mindVars, timerVars, prevCall>>

\* concept.activate(activationLevel) on the concept object c
ActivateCall(c, activationLevel) ==
  /\ pc = "idle"
  /\ heap[c].frequency < 1000 + 100 * MaxActivations
  /\ heap' = [heap EXCEPT ![c] = Activate(@, activationLevel, now)]
  /\ lastCall' = [op |-> "activate", concept |-> c, level |-> activationLevel,
                  result |-> Activate(heap[c], activationLevel, now).activation]
  /\ UNCHANGED <<now, engineVars, workingMemory, capacity, spreadVars, mindVars, timerVars, prevCall>>

\* concept.deactivate() on the concept object c
DeactivateCall(c) ==
  /\ pc = "idle"
  /\ heap' = [heap EXCEPT ![c] = Deactivate(@)]
  /\ lastCall' = [op |-> "deactivate", concept |-> c]
  /\ UNCHANGED <<now, engineVars, workingMemory, capacity, spreadVars, mindVars, timerVars, prevCall>>

(***************************************************************************)
(* SpecActivate: one concept of the engine is activated and deactivated    *)
(* directly, with any level, while the clock moves between the calls.      *)
(***************************************************************************)
InitActivate ==
  /\ now = StartTime
  /\ heap = <<Concept("a", MergeAttributes(EmptyAttrs))>>
  /\ concepts = <<[id |-> "a", ref |-> 1]>>
  /\ relationshipTypes = RegisterAll(EmptyRegistry, InitialTypes).types
  /\ relationshipTypeMap = RegisterAll(EmptyRegistry, InitialTypes).map
  /\ relationshipTypeReverseMap = RegisterAll(EmptyRegistry, InitialTypes).rmap
  /\ workingMemory = <<>>
  /\ capacity = DefaultCapacity
  /\ thinkingHistory = <<>>
  /\ pc = "idle"
  /\ queue = <<>>
  /\ activatedConcepts = <<>>
  /\ spreadArgs = NoCall
  /\ mind = RegisterAll(EmptyRegistry, MindInitialTypes)
  /\ mindHeap = <<>>
  /\ mindConcepts = <<>>
  /\ autoDiscoveryInterval = 0
  /\ timers = {}
  /\ lastCall = [op |-> "addConcept", id |-> "a"]
  /\ prevCall = NoCall

NextActivate ==
  \/ \E c \in 1..Len(heap), level \in LevelInputs : ActivateCall(c, level)
  \/ \E c \in 1..Len(heap) : DeactivateCall(c)
  \/ Tick
  \/ ClockBack

SpecActivate == InitActivate /\ [][NextActivate]_vars

(***************************************************************************)
(* SpecGraph: concepts and relationships are added to the engine.          *)
(***************************************************************************)
NextGraph ==
  \/ \E id \in ConceptIds, attributes \in AttributeInputs : AddConcept(id, attributes)
  \/ \E s \in ConceptIds, t \in ConceptIds, r \in RelationInputs, w \in StrengthInputs :
       AddRelationship(s, r, t, w)

SpecGraph == InitEngine /\ [][NextGraph]_vars

\* C1: after every Concept.activate call, whatever its level and the clock
\* readings between the calls, the value it returned and the activation the
\* concept stores lie in [0, 1].
C1_ActivationInUnitInterval ==
  lastCall.op = "activate" =>
    /\ lastCall.result >= 0 /\ lastCall.result <= 1000
    /\ heap[lastCall.concept].activation >= 0
    /\ heap[lastCall.concept].activation <= 1000

\* Whether the last call was an addRelationship between two known concepts.
AddedRelationship ==
  lastCall.op = "addRelationship" /\ lastCall.source # 0 /\ lastCall.target # 0

\* C2 as stated: after addRelationship(s, R, t, w) with s and t known, t holds
\* an edge to s under getReverseRelationType(R), R being the text passed,
\* with strength 0.8 * w.
C2_MirrorUnderReverseOfArgument ==
  AddedRelationship =>
    LET rev == ReverseType(reverseMap, lastCall.relationType)
    IN /\ HasEdge(heap[lastCall.target], rev, lastCall.source)
       /\ EdgeOf(heap[lastCall.target], rev, lastCall.source).strength
            = (lastCall.strength * 8) \div 10

\* C2 amended: after addRelationship(s, R, t, w) with s and t known, t holds
\* an edge to s under getReverseRelationType of the canonical id of R (the id
\* registered for R when R is a display label, else R), with strength 0.8 * w.
C2_MirrorUnderReverseOfCanonical ==
  AddedRelationship =>
    LET rev == ReverseType(reverseMap, lastCall.canonical)
    IN /\ HasEdge(heap[lastCall.target], rev, lastCall.source)
       /\ EdgeOf(heap[lastCall.target], rev, lastCall.source).strength
            = (lastCall.strength * 8) \div 10

\* A relationship was added under the display label of is-a, and the target
\* holds the has-subtype edge back to the source.
C2_Witness ==
  /\ AddedRelationship
  /\ lastCall.relationType = "shi-yi-zhong"
  /\ lastCall.source # lastCall.target
  /\ HasEdge(heap[lastCall.target], "has-subtype", lastCall.source)
  /\ EdgeOf(heap[lastCall.target], "has-subtype", lastCall.source).strength = 400

\* C3: after addRelationship(s, R, t, w) with s and t known (s = t and
\* self-inverse R included), s holds an edge to t under the canonical id of R
\* whose strength is exactly w.
C3_ForwardEdgeHasStrength ==
  AddedRelationship =>
    /\ HasEdge(heap[lastCall.source], lastCall.canonical, lastCall.target)
    /\ EdgeOf(heap[lastCall.source], lastCall.canonical, lastCall.target).strength
         = lastCall.strength

(***************************************************************************)
(* SpecRegistry: getReverseRelationType is called on the engine and on the *)
(* mind model, each call possibly on the result of the one before.         *)
(***************************************************************************)
ReverseInputs ==
  {"is-a", "has-a", "causes", "needs", "similar-to", "opposite-to", "related-to",
   "has-subtype", "part-of", "caused-by", "needed-by", "likes"}

\* conceptModel.getReverseRelationType(relationType)
ReverseCall(relationType) ==
  /\ pc = "idle"
  /\ LET r == GetReverseRelationType(reverseMap, Registry, relationType)
     IN /\ SetRegistry(r.reg)
        /\ lastCall' = [op |-> "getReverseRelationType", model |-> "ConceptParameterModel",
                        arg |-> relationType, result |-> r.result]
  /\ prevCall' = lastCall
  /\ UNCHANGED <<now, heap, concepts, thinkingHistory, workingMemory, capacity,
                 spreadVars, mindVars, timerVars>>

\* mind.getReverseRelationType(relationType)
MindReverseCall(relationType) ==
  /\ pc = "idle"
  /\ LET r == GetReverseRelationType(mindReverseMap, mind, relationType)
     IN /\ mind' = r.reg
     /\ UNCHANGED <<mindHeap, mindConcepts, timerVars>>
        /\ lastCall' = [op |-> "getReverseRelationType", model |-> "MindModel",
                        arg |-> relationType, result |-> r.result]
  /\ prevCall' = lastCall
  /\ UNCHANGED <<now, heap, engineVars, workingMemory, capacity, spreadVars>>

NextRegistry ==
  \/ \E r \in ReverseInputs : ReverseCall(r)
  \/ \E r \in ReverseInputs : MindReverseCall(r)

SpecRegistry == InitEngine /\ [][NextRegistry]_vars

\* C4: getReverseRelationType applied to its own result gives back R for R in
\* {is-a, has-a, causes, needs}, and maps similar-to and opposite-to to
\* themselves.
C4_ReverseIsInvolution ==
  lastCall.op = "getReverseRelationType" =>
    /\ lastCall.arg \in {"similar-to", "opposite-to"} => lastCall.result = lastCall.arg
    /\ ( /\ prevCall.op = "getReverseRelationType"
         /\ prevCall.model = lastCall.model
         /\ prevCall.arg \in {"is-a", "has-a", "causes", "needs"}
         /\ lastCall.arg = prevCall.result )
       => lastCall.result = prevCall.arg

(***************************************************************************)
(* SpecWM: a WorkingMemory built with some capacity receives addConcept    *)
(* calls for four concept objects, one of which has the empty id.          *)
(***************************************************************************)
WMConceptIds == <<"", "a", "b", "c">>

WMActivations == {200, 500}

InitWM ==
  /\ now = StartTime
  /\ heap = [i \in 1..Len(WMConceptIds) |-> Concept(WMConceptIds[i], MergeAttributes(EmptyAttrs))]
  /\ concepts = <<>>
  /\ relationshipTypes = RegisterAll(EmptyRegistry, InitialTypes).types
  /\ relationshipTypeMap = RegisterAll(EmptyRegistry, InitialTypes).map
  /\ relationshipTypeReverseMap = RegisterAll(EmptyRegistry, InitialTypes).rmap
  /\ workingMemory = <<>>
  /\ capacity \in 1..MaxCapacity
  /\ thinkingHistory = <<>>
  /\ pc = "idle"
  /\ queue = <<>>
  /\ activatedConcepts = <<>>
  /\ spreadArgs = NoCall
  /\ mind = RegisterAll(EmptyRegistry, MindInitialTypes)
  /\ mindHeap = <<>>
  /\ mindConcepts = <<>>
  /\ autoDiscoveryInterval = 0
  /\ timers = {}
  /\ lastCall = NoCall
  /\ prevCall = NoCall

\* workingMemory.addConcept(concept, activation) for the concept object c
WMAddConceptCall(c, activation) ==
  /\ workingMemory' = WMAddConcept(workingMemory, capacity, c, heap[c].id, activation, now)
  /\ lastCall' = [op |-> "wmAddConcept", id |-> heap[c].id, activation |-> activation]
  /\ UNCHANGED <<now, heap, engineVars, capacity, spreadVars, mindVars, timerVars, prevCall>>

\* workingMemory.clear()
WMClearCall ==
  /\ workingMemory' = <<>>
  /\ lastCall' = [op |-> "wmClear"]
  /\ UNCHANGED <<now, heap, engineVars, capacity, spreadVars, mindVars, timerVars, prevCall>>

NextWM ==
  \/ \E c \in 1..Len(heap), a \in WMActivations : WMAddConceptCall(c, a)
  \/ WMClearCall
  \/ Tick

SpecWM == InitWM /\ [][NextWM]_vars

\* C5: the working memory never holds more entries than its capacity.
C5_SizeWithinCapacity == Len(workingMemory) <= capacity

Entries(wm) == {wm[i] : i \in 1..Len(wm)}

\* Entry e has the lowest activation of the entries es, and the oldest
\* timestamp among those tied for it.
IsLowest(e, es) ==
  \A f \in es :
    \/ e.activation < f.activation
    \/ (e.activation = f.activation /\ e.timestamp <= f.timestamp)

\* A step that is an addConcept call on the working memory (the clock stands
\* still during a call); lastCall' holds its arguments.
IsWMAddConceptStep == now' = now /\ lastCall'.op = "wmAddConcept"

\* C6: addConcept of an id not yet present, with the memory at capacity,
\* removes exactly one entry, the one with the lowest activation (the oldest
\* among those tied), and keeps the others unchanged; addConcept of an id
\* already present removes nothing.
C6_EvictsExactlyLowest ==
  [][IsWMAddConceptStep =>
       LET before == Entries(workingMemory)
           after == {e \in Entries(workingMemory') : e.id # lastCall'.id}
           removed == {e \in before : e.id # lastCall'.id} \ after
       IN IF \E e \in before : e.id = lastCall'.id
          THEN removed = {} /\ after \subseteq before
          ELSE /\ after \subseteq before
               /\ Len(workingMemory) >= capacity =>
                    /\ Cardinality(removed) = 1
                    /\ \A e \in removed : IsLowest(e, before)
               /\ Len(workingMemory) < capacity => removed = {}]_vars

(***************************************************************************)
(* spreadActivation                                                        *)
(***************************************************************************)
\* Math.pow(decay, n)
RECURSIVE Pow(_, _)
Pow(decay, n) == IF n = 0 THEN 1000 ELSE Mul(Pow(decay, n - 1), decay)

\* A propagation that forgets the decay by depth.
PropagationWithoutDecay(activation, relationStrength, decay, depth) ==
  Mul(activation, relationStrength)

\* current.activation * relationStrength * Math.pow(decay, current.depth + 1)
Propagation(activation, relationStrength, decay, depth) ==
  Mul(Mul(activation, relationStrength), Pow(decay, depth + 1))

\* An enqueue test that ignores maxDepth.
EnqueueAlways(depth, maxDepth) == TRUE

\* if (current.depth + 1 < maxDepth) queue.push(...), for the target's depth
ShouldEnqueue(depth, maxDepth) == depth < maxDepth

\* The position of the concept object c in the result map, 0 if absent.
ActivatedIndex(activated, c) ==
  IF \E i \in 1..Len(activated) : activated[i].concept = c
  THEN CHOOSE i \in 1..Len(activated) : activated[i].concept = c
  ELSE 0

\* activatedConcepts.set(c, {activation, depth})
ActivatedSet(activated, c, activation, depth) ==
  LET i == ActivatedIndex(activated, c)
      rec == [concept |-> c, activation |-> activation, depth |-> depth]
  IN IF i = 0 THEN Append(activated, rec) ELSE [activated EXCEPT ![i] = rec]

\* All edge records of a relationships map, in the order the two nested
\* for-loops visit them.
RECURSIVE AllEdges(_)
AllEdges(rels) == IF rels = <<>> THEN <<>> ELSE Head(rels).edges \o AllEdges(Tail(rels))

\* A test that lets every edge's target be considered.
MayVisitAlways(activated, target, depth) == TRUE

\* The test that lets an edge's target be (re)considered.
MayVisit(activated, target, depth) ==
  LET i == ActivatedIndex(activated, target)
  IN i = 0 \/ depth + 1 < activated[i].depth

\* The body of the inner for-loop for one edge e of the dequeued entry
\* current, on the spreading state st = [heap, wm, queue, activated].
SpreadEdge(st, current, e, maxDepth, decay, cap, t) ==
  IF MayVisit(st.activated, e.target, current.depth)
  THEN LET propagationActivation ==
             Propagation(current.activation, e.strength, decay, current.depth)
       IN IF propagationActivation > e.activationThreshold
          THEN LET target == Activate(st.heap[e.target], propagationActivation, t)
                   targetActivation == target.activation
               IN [heap |-> [st.heap EXCEPT ![e.target] = target],
                   activated |-> ActivatedSet(st.activated, e.target, targetActivation,
                                              current.depth + 1),
                   wm |-> WMAddConcept(st.wm, cap, e.target, target.id, targetActivation, t),
                   queue |-> IF ShouldEnqueue(current.depth + 1, maxDepth)
                             THEN Append(st.queue, [concept |-> e.target,
                                                    activation |-> targetActivation,
                                                    depth |-> current.depth + 1])
                             ELSE st.queue]
          ELSE st
  ELSE st

\* The inner for-loops over the edges left to visit.  The state after the
\* first edge is bound as a value (next) before the rest is computed from it.
RECURSIVE SpreadEdges(_, _, _, _, _, _, _)
SpreadEdges(st, current, edges, maxDepth, decay, cap, t) ==
  IF edges = <<>> THEN st
  ELSE CHOOSE after \in
         { SpreadEdges(next, current, Tail(edges), maxDepth, decay, cap, t) :
             next \in {SpreadEdge(st, current, Head(edges), maxDepth, decay, cap, t)} } : TRUE

\* One iteration of the while-loop: queue.shift() and the two for-loops.
SpreadIteration(st, maxDepth, decay, cap, t) ==
  LET current == Head(st.queue)
  IN SpreadEdges([st EXCEPT !.queue = Tail(@)], current,
                 AllEdges(st.heap[current.concept].relationships),
                 maxDepth, decay, cap, t)

\* The spreading state after the source (a known concept object) is activated,
\* recorded, put into working memory and enqueued.
SpreadSource(h, wm, cap, source, initialActivation, t) ==
  LET s == Activate(h[source], initialActivation, t)
  IN [heap |-> [h EXCEPT ![source] = s],
      activated |-> <<[concept |-> source, activation |-> s.activation, depth |-> 0]>>,
      wm |-> WMAddConcept(wm, cap, source, s.id, s.activation, t),
      queue |-> <<[concept |-> source, activation |-> s.activation, depth |-> 0]>>]

\* The while-loop run to its end.
RECURSIVE SpreadLoop(_, _, _, _, _)
SpreadLoop(st, maxDepth, decay, cap, t) ==
  IF st.queue = <<>> THEN st
  ELSE SpreadLoop(SpreadIteration(st, maxDepth, decay, cap, t), maxDepth, decay, cap, t)

\* The record spreadActivation appends to thinkingHistory.
SpreadRecord(sourceId) == [type |-> "spreadActivation", source |-> sourceId]

\* spreadActivation(sourceId, initialActivation, maxDepth, decay) as one
\* step, at time t: the objects, working memory and history after, and the
\* map returned.
SpreadActivation(h, wm, hist, cap, cs, sourceId, initialActivation, maxDepth, decay, t) ==
  LET source == GetConcept(cs, sourceId)
  IN IF source = 0
     THEN [heap |-> h, wm |-> wm, history |-> hist, result |-> <<>>]
     ELSE LET st == SpreadLoop(SpreadSource(h, wm, cap, source, initialActivation, t),
                               maxDepth, decay, cap, t)
          IN [heap |-> st.heap, wm |-> st.wm,
              history |-> Append(hist, SpreadRecord(sourceId)),
              result |-> st.activated]

(***************************************************************************)
(* SpecSpread: on an engine holding the concepts dog, animal and food,     *)
(* relationships are added and spreadActivation runs, one iteration of its *)
(* while-loop per step.                                                    *)
(***************************************************************************)
SpreadIds == <<"dog", "animal", "food">>

\* The addRelationship calls made: a chain, a cycle back to its start, a
\* self-loop and a shortcut (every call also adds the mirrored edge).
SpreadRelations ==
  { <<"dog", "is-a", "animal", 900>>, <<"animal", "needs", "food", 800>>,
    <<"food", "is-a", "dog", 900>>, <<"animal", "is-a", "animal", 900>>,
    <<"dog", "needs", "food", 800>>, <<"animal", "is-a", "food", 900>> }

SpreadLevels == {800}

SpreadDecays == {500, 1000}

InitSpread ==
  /\ now = StartTime
  /\ heap = [i \in 1..Len(SpreadIds) |-> Concept(SpreadIds[i], MergeAttributes(EmptyAttrs))]
  /\ concepts = [i \in 1..Len(SpreadIds) |-> [id |-> SpreadIds[i], ref |-> i]]
  /\ relationshipTypes = RegisterAll(EmptyRegistry, InitialTypes).types
  /\ relationshipTypeMap = RegisterAll(EmptyRegistry, InitialTypes).map
  /\ relationshipTypeReverseMap = RegisterAll(EmptyRegistry, InitialTypes).rmap
  /\ workingMemory = <<>>
  /\ capacity = DefaultCapacity
  /\ thinkingHistory = <<>>
  /\ pc = "idle"
  /\ queue = <<>>
  /\ activatedConcepts = <<>>
  /\ spreadArgs = NoCall
  /\ mind = RegisterAll(EmptyRegistry, MindInitialTypes)
  /\ mindHeap = <<>>
  /\ mindConcepts = <<>>
  /\ autoDiscoveryInterval = 0
  /\ timers = {}
  /\ lastCall = [op |-> "addConcept", id |-> "food"]
  /\ prevCall = NoCall

\* spreadActivation is entered: the source is looked up and, if known,
\* activated and enqueued.
SpreadBegin(sourceId, initialActivation, maxDepth, decay) ==
  /\ pc = "idle"
  /\ Len(thinkingHistory) < MaxSpreads
  /\ GetConcept(concepts, sourceId) # 0
  /\ LET st == SpreadSource(heap, workingMemory, capacity, GetConcept(concepts, sourceId),
                            initialActivation, now)
     IN /\ heap' = st.heap
        /\ workingMemory' = st.wm
        /\ queue' = st.queue
        /\ activatedConcepts' = st.activated
  /\ pc' = "spreading"
  /\ spreadArgs' = [op |-> "spreadActivation", sourceId |-> sourceId,
                    initialActivation |-> initialActivation,
                    maxDepth |-> maxDepth, decay |-> decay]
  /\ UNCHANGED <<now, engineVars, capacity, mindVars, timerVars, lastCall, prevCall>>

\* One iteration of the while-loop.
SpreadStep ==
  /\ pc = "spreading"
  /\ queue # <<>>
  /\ \E st \in {SpreadIteration([heap |-> heap, wm |-> workingMemory, queue |-> queue,
                                 activated |-> activatedConcepts],
                                spreadArgs.maxDepth, spreadArgs.decay, capacity, now)} :
       /\ heap' = st.heap
       /\ workingMemory' = st.wm
       /\ queue' = st.queue
       /\ activatedConcepts' = st.activated
  /\ UNCHANGED <<now, engineVars, capacity, pc, spreadArgs, mindVars, timerVars, lastCall, prevCall>>

\* The queue is empty: the history record is appended and the map returned.
SpreadEnd ==
  /\ pc = "spreading"
  /\ queue = <<>>
  /\ thinkingHistory' = Append(thinkingHistory, SpreadRecord(spreadArgs.sourceId))
  /\ lastCall' = [spreadArgs EXCEPT !.op = "spreadActivation"] @@ [result |-> activatedConcepts]
  /\ pc' = "idle"
  /\ activatedConcepts' = <<>>
  /\ spreadArgs' = NoCall
  /\ UNCHANGED <<now, heap, concepts, relationshipTypes, relationshipTypeMap,
                 relationshipTypeReverseMap, workingMemory, capacity, queue, mindVars, timerVars, prevCall>>

\* spreadActivation of an unknown id returns an empty map at once.
SpreadUnknown(sourceId, initialActivation, maxDepth, decay) ==
  /\ pc = "idle"
  /\ GetConcept(concepts, sourceId) = 0
  /\ lastCall' = [op |-> "spreadActivation", sourceId |-> sourceId,
                  initialActivation |-> initialActivation,
                  maxDepth |-> maxDepth, decay |-> decay, result |-> <<>>]
  /\ UNCHANGED <<now, heap, engineVars, workingMemory, capacity, spreadVars, mindVars, timerVars, prevCall>>

NextSpread ==
  \/ \E r \in SpreadRelations : AddRelationship(r[1], r[2], r[3], r[4])
  \/ \E s \in 1..Len(SpreadIds), a \in SpreadLevels, d \in 0..MaxDepthArg, k \in SpreadDecays :
       SpreadBegin(SpreadIds[s], a, d, k)
  \/ \E a \in SpreadLevels, d \in 0..MaxDepthArg, k \in SpreadDecays :
       SpreadUnknown("ghost", a, d, k)
  \/ SpreadStep
  \/ SpreadEnd

SpecSpread == InitSpread /\ [][NextSpread]_vars

\* The while-loop of a synchronous call runs on until its queue is empty.
FairSpecSpread == SpecSpread /\ WF_vars(SpreadStep) /\ WF_vars(SpreadEnd)

\* Every entry on the BFS queue of the running spreadActivation has a depth
\* of at most maxDepth.
QueueDepthBounded ==
  pc = "spreading" => \A i \in 1..Len(queue) : queue[i].depth <= spreadArgs.maxDepth

\* C7: on any graph (cycles, mutual edges and self-loops included) and for
\* any maxDepth >= 0, spreadActivation terminates, and every entry it puts on
\* its queue has a depth of at most maxDepth.
C7_SpreadTerminatesWithinDepth ==
  /\ []QueueDepthBounded
  /\ (pc = "spreading") ~> (pc = "idle")

\* A spreadActivation with maxDepth 1 has returned from a source that holds
\* an is-a edge to itself and mutual edges with a second concept: the second
\* concept was recorded at depth 1 and its edges were not followed.
C7_Witness ==
  /\ lastCall.op = "spreadActivation"
  /\ lastCall.maxDepth = 1
  /\ Len(lastCall.result) = 2
  /\ lastCall.result[2].depth = 1
  /\ LET source == lastCall.result[1].concept
         other == lastCall.result[2].concept
     IN /\ HasEdge(heap[source], "is-a", source)
        /\ HasEdge(heap[source], "has-subtype", other)
        /\ HasEdge(heap[other], "is-a", source)

\* The concept object stored under id.
Ref(id) == GetConcept(concepts, id)

\* spreadActivation('dog', 0.8, 3, 0.5) has returned, as the first reasoning
\* call on an engine that holds dog, animal and food and exactly the edges of
\* addRelationship(dog, is-a, animal, 0.9) and
\* addRelationship(animal, needs, food, 0.8).
ExampleSpreadReturned ==
  /\ lastCall.op = "spreadActivation"
  /\ lastCall.sourceId = "dog"
  /\ lastCall.initialActivation = 800
  /\ lastCall.maxDepth = 3
  /\ lastCall.decay = 500
  /\ Len(thinkingHistory) = 1
  /\ EdgeCount(heap) = 4
  /\ HasEdge(heap[Ref("dog")], "is-a", Ref("animal"))
  /\ EdgeOf(heap[Ref("dog")], "is-a", Ref("animal")).strength = 900
  /\ HasEdge(heap[Ref("animal")], "needs", Ref("food"))
  /\ EdgeOf(heap[Ref("animal")], "needs", Ref("food")).strength = 800

\* The returned map holds the concept stored under id at the given depth.
ReturnedAt(id, depth) ==
  \E i \in 1..Len(lastCall.result) :
    /\ lastCall.result[i].concept = Ref(id)
    /\ lastCall.result[i].depth = depth
    /\ lastCall.result[i].activation > 0

\* C8 as stated: the map returned by the example call holds animal at depth 1
\* with activation > 0 and food at depth 2.
C8_ExampleReachesFood ==
  ExampleSpreadReturned => ReturnedAt("animal", 1) /\ ReturnedAt("food", 2)

\* C8 amended: the map returned by the example call holds animal at depth 1
\* with activation > 0 and does not hold food (the activation propagated to
\* food, 0.36 * 0.8 * 0.5^2 = 0.072, is not above the threshold 0.3).
C8_ExampleStopsAtAnimal ==
  ExampleSpreadReturned =>
    /\ ReturnedAt("animal", 1)
    /\ \A i \in 1..Len(lastCall.result) : lastCall.result[i].concept # Ref("food")

\* The example call has returned, with dog and animal in its map.
C8_Witness ==
  /\ ExampleSpreadReturned
  /\ ReturnedAt("dog", 0)
  /\ ReturnedAt("animal", 1)
  /\ Len(lastCall.result) = 2

(***************************************************************************)
(* getAssociatedConcepts, deductiveInference, infer                        *)
(***************************************************************************)
\* Set.add(c) on a Set kept in insertion order.
SetAdd(result, c) ==
  IF \E i \in 1..Len(result) : result[i] = c THEN result ELSE Append(result, c)

\* The targets the dfs of getAssociatedConcepts iterates for one concept:
\* those of relationType if it is given (truthy), of every type otherwise.
AssociatedEdges(rels, relationType) ==
  IF Truthy(relationType) THEN GetRelationships(rels, relationType) ELSE AllEdges(rels)

\* dfs(concept, currentDepth) of getAssociatedConcepts on the search state
\* st = [visited, result]: visited holds concept ids, result concept objects.
RECURSIVE Dfs(_, _, _, _, _, _), DfsTargets(_, _, _, _, _, _)
Dfs(h, st, c, currentDepth, depth, relationType) ==
  IF h[c].id \in st.visited \/ currentDepth > depth
  THEN st
  ELSE DfsTargets(h, [visited |-> st.visited \cup {h[c].id},
                      result |-> IF currentDepth > 0 THEN SetAdd(st.result, c) ELSE st.result],
                  AssociatedEdges(h[c].relationships, relationType),
                  currentDepth + 1, depth, relationType)

DfsTargets(h, st, edges, currentDepth, depth, relationType) ==
  IF edges = <<>> THEN st
  ELSE CHOOSE after \in
         { DfsTargets(h, next, Tail(edges), currentDepth, depth, relationType) :
             next \in {Dfs(h, st, Head(edges).target, currentDepth, depth, relationType)} } : TRUE

\* getAssociatedConcepts(sourceId, relationType, depth): the concept objects
\* found, in the order they were added.
GetAssociatedConcepts(h, cs, sourceId, relationType, depth) ==
  LET source == GetConcept(cs, sourceId)
  IN IF source = 0 THEN <<>>
     ELSE Dfs(h, [visited |-> {}, result |-> <<>>], source, 0, depth, relationType).result

\* The depth deductiveInference searches to.
DeductionDepth == 3

\* deductiveInference(source, target) on concept objects.
DeductiveInference(h, cs, source, target) ==
  LET found == GetAssociatedConcepts(h, cs, h[source].id, "is-a", DeductionDepth)
      sourceAssociations == {h[found[i]].id : i \in 1..Len(found)}
  IN IF h[target].id \in sourceAssociations
     THEN [confidence |-> 900, type |-> "deductive"]
     ELSE [confidence |-> 300, type |-> "deductive"]

(***************************************************************************)
(* Doubles that are not numbers.  NaN is a value outside the thousandths;  *)
(* every arithmetic operation on it gives NaN and every comparison with it *)
(* is false.                                                               *)
(***************************************************************************)
NaN == -999999

IsNumber(x) == x # NaN

\* a + b
FAdd(a, b) == IF a = NaN \/ b = NaN THEN NaN ELSE a + b

\* a * b on thousandths
FMul(a, b) == IF a = NaN \/ b = NaN THEN NaN ELSE Mul(a, b)

\* a / n for a count or a quantity a and a count n, in thousandths per unit
\* of a; 0 / 0 is NaN (a positive a is never divided by 0 here).
FDiv(a, n) == IF a = NaN \/ n = NaN \/ n = 0 THEN NaN ELSE a \div n

\* a >= b
FGeq(a, b) == a # NaN /\ b # NaN /\ a >= b

\* a > b
FGt(a, b) == a # NaN /\ b # NaN /\ a > b

(***************************************************************************)
(* getCommonAttributes, calculateSimilarity                                *)
(***************************************************************************)
\* The keys getCommonAttributes filters out.  Of them, attrs holds type and
\* category; activation, weight and frequency are fields of the object.
ReservedKeys == {"activation", "weight", "type", "category", "frequency"}

\* Object.keys(concept.attributes)
AttributeKeys(c) == DOMAIN c.attrs \cup {"activation", "weight", "frequency"}

\* getCommonAttributes(concept1, concept2): the keys returned.
GetCommonAttributes(c1, c2) ==
  { k \in AttributeKeys(c1) \ ReservedKeys :
      k \in AttributeKeys(c2) \ ReservedKeys /\ c1.attrs[k] = c2.attrs[k] }

\* calculateSimilarity(concept1, concept2)
CalculateSimilarity(c1, c2) ==
  FDiv(1000 * Cardinality(GetCommonAttributes(c1, c2)),
       Cardinality(AttributeKeys(c1) \cup AttributeKeys(c2)))

(***************************************************************************)
(* inductiveInference, analogicalInference, causalInference                *)
(***************************************************************************)
\* [...concept.getRelationships().keys()]: the relation types a concept
\* holds a (possibly empty) edge map under.
RelationKeys(c) == {c.relationships[i].type : i \in 1..Len(c.relationships)}

\* commonRelations.size: commonRelations is an Array (the value of filter),
\* which has no property size; undefined converts to NaN in the division.
ArraySize(commonRelations) == NaN

\* commonRelations.length
ArrayLength(commonRelations) == Cardinality(commonRelations)

\* The similarity of inductiveInference, given how the number of common
\* relation types is read.
InductiveSimilarity(c1, c2, commonCount) ==
  LET commonAttributes == GetCommonAttributes(c1, c2)
      sourceRelations == RelationKeys(c1)
      targetRelations == RelationKeys(c2)
  IN FAdd(FMul(FDiv(1000 * Cardinality(commonAttributes),
                    Max(Cardinality(AttributeKeys(c1)), Cardinality(AttributeKeys(c2)))),
               600),
          FMul(FDiv(IF commonCount = NaN THEN NaN ELSE 1000 * commonCount,
                    Max(Cardinality(sourceRelations), Cardinality(targetRelations))),
               400))

\* inductiveInference(source, target) on concept objects.
InductiveInference(h, source, target) ==
  LET commonRelations == RelationKeys(h[source]) \cap RelationKeys(h[target])
  IN [confidence |-> InductiveSimilarity(h[source], h[target], ArraySize(commonRelations)),
      type |-> "inductive"]

\* The strengths analogicalInference computes in its four nested loops, one
\* for every pair of an edge of source and an edge of target under the same
\* relation type.
AnalogyStrengths(h, source, target) ==
  LET sr == h[source].relationships
      tr == h[target].relationships
      sameType == {x \in (1..Len(sr)) \X (1..Len(tr)) : sr[x[1]].type = tr[x[2]].type}
  IN UNION { { FMul(CalculateSimilarity(h[source], h[target]),
                    CalculateSimilarity(h[sr[x[1]].edges[y[1]].target],
                                        h[tr[x[2]].edges[y[2]].target])) :
                 y \in (1..Len(sr[x[1]].edges)) \X (1..Len(tr[x[2]].edges)) } :
             x \in sameType }

\* analogicalInference(source, target): the strongest analogy above 0.5.
AnalogicalInference(h, source, target) ==
  LET analogies == {x \in AnalogyStrengths(h, source, target) : FGt(x, 500)}
  IN IF analogies # {}
     THEN [confidence |-> CHOOSE x \in analogies : \A y \in analogies : x >= y,
           type |-> "analogical"]
     ELSE [confidence |-> 200, type |-> "analogical"]

\* dfs(current, path, depth) of findIndirectRelationships: the paths it
\* pushes.  visited holds the ids of the concepts on the way from the source
\* (each is deleted again when its dfs returns).
RECURSIVE IndirectDfs(_, _, _, _, _, _, _, _), IndirectNext(_, _, _, _, _, _, _, _)
IndirectDfs(h, current, target, path, visited, depth, relationType, maxDepth) ==
  IF h[current].id \in visited \/ depth > maxDepth THEN <<>>
  ELSE IF current = target /\ Len(path) > 0 THEN <<path>>
  ELSE IndirectNext(h, GetRelationships(h[current].relationships, relationType), target,
                    path, visited \cup {h[current].id}, depth, relationType, maxDepth)

IndirectNext(h, edges, target, path, visited, depth, relationType, maxDepth) ==
  IF edges = <<>> THEN <<>>
  ELSE IndirectDfs(h, Head(edges).target, target, Append(path, h[Head(edges).target].id),
                   visited, depth + 1, relationType, maxDepth)
       \o IndirectNext(h, Tail(edges), target, path, visited, depth, relationType, maxDepth)

\* findIndirectRelationships(source, target, relationType, maxDepth)
FindIndirectRelationships(h, source, target, relationType, maxDepth) ==
  IndirectDfs(h, source, target, <<h[source].id>>, {}, 0, relationType, maxDepth)

\* The depth causalInference searches to.
CausalDepth == 3

\* causalInference(source, target) on concept objects.
CausalInference(h, source, target) ==
  IF HasEdge(h[source], "causes", target)
  THEN [confidence |-> 800, type |-> "causal"]
  ELSE IF Len(FindIndirectRelationships(h, source, target, "causes", CausalDepth)) > 0
       THEN [confidence |-> 600, type |-> "causal"]
       ELSE [confidence |-> 300, type |-> "causal"]

\* The switch of infer.
InferenceOfType(h, cs, source, target, inferenceType) ==
  CASE inferenceType = "deduction" -> DeductiveInference(h, cs, source, target)
    [] inferenceType = "induction" -> InductiveInference(h, source, target)
    [] inferenceType = "analogy" -> AnalogicalInference(h, source, target)
    [] inferenceType = "causal" -> CausalInference(h, source, target)
    [] OTHER -> DeductiveInference(h, cs, source, target)

\* The value null returned by infer.
Null == [confidence |-> 0, type |-> "null"]

\* The arguments of the spreadActivation call infer makes.
InferActivation == 600

InferDepth == 2

DefaultDecay == 500

\* The record infer appends to thinkingHistory.
InferRecord(sourceId, targetId, inferenceType, result) ==
  [type |-> "inference", source |-> sourceId, target |-> targetId,
   inferenceType |-> inferenceType, result |-> result]

\* An infer that spreads activation from the source before it looks at the
\* two ids.
UnknownInferAfterSpread(h, wm, hist, cap, cs, sourceId, t) ==
  LET sp == SpreadActivation(h, wm, hist, cap, cs, sourceId,
                             InferActivation, InferDepth, DefaultDecay, t)
  IN [heap |-> sp.heap, wm |-> sp.wm, history |-> sp.history, result |-> Null]

\* infer when sourceId or targetId is unknown: `return null` before anything
\* else is done.
UnknownInfer(h, wm, hist, cap, cs, sourceId, t) ==
  [heap |-> h, wm |-> wm, history |-> hist, result |-> Null]

\* infer(sourceId, targetId, inferenceType) at time t: the objects, working
\* memory and history after, and the value returned.
Infer(h, wm, hist, cap, cs, sourceId, targetId, inferenceType, t) ==
  LET source == GetConcept(cs, sourceId)
      target == GetConcept(cs, targetId)
  IN IF source = 0 \/ target = 0
     THEN UnknownInfer(h, wm, hist, cap, cs, sourceId, t)
     ELSE LET sp == SpreadActivation(h, wm, hist, cap, cs, sourceId,
                                     InferActivation, InferDepth, DefaultDecay, t)
              result == InferenceOfType(sp.heap, cs, source, target, inferenceType)
          IN [heap |-> sp.heap, wm |-> sp.wm,
              history |-> Append(sp.history,
                                 InferRecord(sourceId, targetId, inferenceType, result)),
              result |-> result]

(***************************************************************************)
(* SpecInfer: on an engine holding dog, animal and food, relationships are *)
(* added and infer is called on known and unknown ids.                     *)
(***************************************************************************)
InferRelations ==
  { <<"dog", "is-a", "animal", 900>>, <<"animal", "is-a", "food", 900>>,
    <<"dog", "is-a", "dog", 900>>, <<"animal", "shi-yi-zhong", "dog", 500>>,
    <<"food", "needs", "dog", 800>>, <<"dog", "causes", "animal", 800>>,
    <<"animal", "causes", "food", 800>> }

InferIds == {"dog", "animal", "food", "ghost"}

\* The four kinds and one that falls to the switch's default.
InferenceTypes == {"deduction", "induction", "analogy", "causal", "abduction"}

InferCall(sourceId, targetId, inferenceType) ==
  /\ pc = "idle"
  /\ Len(thinkingHistory) + 2 <= MaxHistory
  /\ \E r \in {Infer(heap, workingMemory, thinkingHistory, capacity, concepts,
                     sourceId, targetId, inferenceType, now)} :
       /\ heap' = r.heap
       /\ workingMemory' = r.wm
       /\ thinkingHistory' = r.history
       /\ lastCall' = [op |-> "infer", sourceId |-> sourceId, targetId |-> targetId,
                       inferenceType |-> inferenceType,
                       source |-> GetConcept(concepts, sourceId),
                       target |-> GetConcept(concepts, targetId),
                       result |-> r.result]
  /\ UNCHANGED <<now, concepts, relationshipTypes, relationshipTypeMap,
                 relationshipTypeReverseMap, capacity, spreadVars, mindVars, timerVars, prevCall>>

NextInfer ==
  \/ \E r \in InferRelations : AddRelationship(r[1], r[2], r[3], r[4])
  \/ \E s \in InferIds, t \in InferIds, k \in InferenceTypes : InferCall(s, t, k)

SpecInfer == InitSpread /\ [][NextInfer]_vars

\* C9: whenever infer(A, B, 'deduction') has returned for concepts A and B of
\* the engine such that A holds an is-a edge to B, the confidence returned
\* is 0.9.
C9_IsAEdgeGivesDeduction ==
  ( /\ lastCall.op = "infer"
    /\ lastCall.inferenceType = "deduction"
    /\ lastCall.source # 0
    /\ lastCall.target # 0
    /\ HasEdge(heap[lastCall.source], "is-a", lastCall.target) )
  => lastCall.result.confidence = 900

\* infer has returned a result for two known concepts and one of the four
\* kinds.
InferredKnown ==
  /\ lastCall.op = "infer"
  /\ lastCall.source # 0
  /\ lastCall.target # 0
  /\ lastCall.inferenceType \in {"deduction", "induction", "analogy", "causal"}

\* C13: for known source and target ids and each of the four kinds, the
\* confidence of the result infer returns is a number in [0, 1].
C13_ConfidenceInUnitInterval ==
  InferredKnown =>
    /\ IsNumber(lastCall.result.confidence)
    /\ 0 <= lastCall.result.confidence
    /\ lastCall.result.confidence <= 1000

(***************************************************************************)
(* learn                                                                   *)
(***************************************************************************)
\* A clamp of the learned strength without the floor.
ClampStrengthNoFloor(x) == Min(2000, x)

\* Math.max(0.1, Math.min(2.0, x))
ClampStrength(x) == Max(100, Min(2000, x))

\* outcome ? reinforcement : -reinforcement * 0.5
StrengthDelta(outcome, reinforcement) ==
  IF outcome THEN reinforcement ELSE -Mul(reinforcement, 500)

\* Math.max(0.5, weight + (outcome ? 0.1 : -0.05))
LearnWeight(weight, outcome) == Max(500, weight + (IF outcome THEN 100 ELSE -50))

\* A learn that adjusts every edge the source holds to the target, whatever
\* its relation type.
LearnEdgeAllTypes(rels, relationType, target, outcome, reinforcement, t) ==
  [i \in 1..Len(rels) |->
     [rels[i] EXCEPT !.edges =
        [j \in 1..Len(rels[i].edges) |->
           IF rels[i].edges[j].target = target
           THEN [rels[i].edges[j] EXCEPT
                   !.strength = ClampStrength(@ + StrengthDelta(outcome, reinforcement)),
                   !.lastUsed = t]
           ELSE rels[i].edges[j]]]]

\* The relationships map of the source after learn's strength update: the
\* edge to target under relationType, if held, gets the clamped strength and
\* lastUsed = t.  A falsy relationType makes getRelationships return the
\* whole map, which holds no concept as a key.
LearnEdge(rels, relationType, target, outcome, reinforcement, t) ==
  LET i == TypeIndex(rels, relationType)
      j == IF i = 0 THEN 0 ELSE TargetIndex(rels[i].edges, target)
  IN IF Truthy(relationType) /\ j # 0
     THEN [rels EXCEPT ![i].edges[j].strength =
                         ClampStrength(@ + StrengthDelta(outcome, reinforcement)),
                       ![i].edges[j].lastUsed = t]
     ELSE rels

\* The record learn appends to thinkingHistory (its type; the experience and
\* reinforcement it also carries are never read back by the engine).
LearnRecord == [type |-> "learning"]

\* learn({source, target, relationType, outcome}, reinforcement) at time t:
\* the objects, working memory and history after.
Learn(h, wm, hist, cap, cs, sourceId, targetId, relationType, outcome, reinforcement, t) ==
  LET source == GetConcept(cs, sourceId)
      target == GetConcept(cs, targetId)
  IN IF source = 0 \/ target = 0
     THEN [heap |-> h, wm |-> wm, history |-> hist]
     ELSE LET h1 == [h EXCEPT ![source].relationships =
                       LearnEdge(@, relationType, target, outcome, reinforcement, t)]
              h2 == [h1 EXCEPT ![source].weight = LearnWeight(@, outcome)]
              h3 == [h2 EXCEPT ![target].weight = LearnWeight(@, outcome)]
              h4 == [h3 EXCEPT ![source].frequency = @ + 200]
              h5 == [h4 EXCEPT ![target].frequency = @ + 200]
              wm1 == WMAddConcept(wm, cap, source, h5[source].id,
                                  GetActivationLevel(h5[source], t), t)
              wm2 == WMAddConcept(wm1, cap, target, h5[target].id,
                                  GetActivationLevel(h5[target], t), t)
          IN [heap |-> h5, wm |-> wm2, history |-> Append(hist, LearnRecord)]

(***************************************************************************)
(* SpecLearn: on an engine holding a and b and the edges of one            *)
(* addRelationship(a, is-a, b, w), learn is called again and again.        *)
(***************************************************************************)
\* The strength w the relationship was added with: below the floor of learn
\* and above its ceiling.
LearnStrengths == {50, 3000}

\* Experiences without their outcome: the authored edge, its mirror, the
\* label of is-a (no edge is stored under a label), an unknown source.
LearnExperiences ==
  { <<"a", "is-a", "b">>, <<"b", "has-subtype", "a">>,
    <<"a", "shi-yi-zhong", "b">>, <<"ghost", "is-a", "b">> }

\* The default reinforcement and a large one.
LearnReinforcements == {1000, 4000}

InitLearn ==
  /\ now = StartTime
  /\ concepts = <<[id |-> "a", ref |-> 1], [id |-> "b", ref |-> 2]>>
  /\ \E w \in LearnStrengths :
       heap = AddRelationshipResult(
                <<Concept("a", MergeAttributes(EmptyAttrs)),
                  Concept("b", MergeAttributes(EmptyAttrs))>>,
                concepts, RegisterAll(EmptyRegistry, InitialTypes),
                "a", "is-a", "b", w, now).heap
  /\ relationshipTypes = RegisterAll(EmptyRegistry, InitialTypes).types
  /\ relationshipTypeMap = RegisterAll(EmptyRegistry, InitialTypes).map
  /\ relationshipTypeReverseMap = RegisterAll(EmptyRegistry, InitialTypes).rmap
  /\ workingMemory = <<>>
  /\ capacity = DefaultCapacity
  /\ thinkingHistory = <<>>
  /\ pc = "idle"
  /\ queue = <<>>
  /\ activatedConcepts = <<>>
  /\ spreadArgs = NoCall
  /\ mind = RegisterAll(EmptyRegistry, MindInitialTypes)
  /\ mindHeap = <<>>
  /\ mindConcepts = <<>>
  /\ autoDiscoveryInterval = 0
  /\ timers = {}
  /\ lastCall = [op |-> "addRelationship", sourceId |-> "a", relationType |-> "is-a",
                 targetId |-> "b"]
  /\ prevCall = NoCall

LearnCall(sourceId, relationType, targetId, outcome, reinforcement) ==
  /\ pc = "idle"
  /\ Len(thinkingHistory) < MaxLearn
  /\ \E r \in {Learn(heap, workingMemory, thinkingHistory, capacity, concepts,
                     sourceId, targetId, relationType, outcome, reinforcement, now)} :
       /\ heap' = r.heap
       /\ workingMemory' = r.wm
       /\ thinkingHistory' = r.history
  /\ lastCall' = [op |-> "learn", sourceId |-> sourceId, relationType |-> relationType,
                  targetId |-> targetId, outcome |-> outcome,
                  reinforcement |-> reinforcement,
                  source |-> GetConcept(concepts, sourceId),
                  target |-> GetConcept(concepts, targetId)]
  /\ UNCHANGED <<now, concepts, relationshipTypes, relationshipTypeMap,
                 relationshipTypeReverseMap, capacity, spreadVars, mindVars, timerVars, prevCall>>

NextLearn ==
  \E e \in LearnExperiences, outcome \in BOOLEAN, r \in LearnReinforcements :
    LearnCall(e[1], e[2], e[3], outcome, r)

SpecLearn == InitLearn /\ [][NextLearn]_vars

\* A learn call on known concepts has returned.
Learned ==
  /\ lastCall.op = "learn"
  /\ lastCall.source # 0
  /\ lastCall.target # 0

\* The edge the last learn call named is held by its source.
LearnedEdgeHeld ==
  HasEdge(heap[lastCall.source], lastCall.relationType, lastCall.target)

\* C10: after every learn call, whatever the outcomes and reinforcements of
\* the calls so far, the strength of the learned edge lies in [0.1, 2.0] and
\* the weight of both endpoint concepts is at least 0.5.
C10_LearnKeepsBounds ==
  Learned =>
    /\ LearnedEdgeHeld =>
         LET strength == EdgeOf(heap[lastCall.source], lastCall.relationType,
                                lastCall.target).strength
         IN 100 <= strength /\ strength <= 2000
    /\ heap[lastCall.source].weight >= 500
    /\ heap[lastCall.target].weight >= 500

\* MaxLearn learn calls were made, one more than the ten failures that bring
\* a weight from 1.0 to 0.5, the last of them a failure on an edge its source
\* holds: the edge's strength and both weights sit on their floors.
C10_Witness ==
  /\ Learned
  /\ LearnedEdgeHeld
  /\ ~lastCall.outcome
  /\ Len(thinkingHistory) = MaxLearn
  /\ EdgeOf(heap[lastCall.source], lastCall.relationType, lastCall.target).strength = 100
  /\ heap[lastCall.source].weight = 500
  /\ heap[lastCall.target].weight = 500

(***************************************************************************)
(* autoDiscoverRelationships                                               *)
(***************************************************************************)
\* The keys `${sourceId}-${relationType}-${target.id}` collected from the
\* concepts map, as triples (no concept id of the model contains a '-').
ExistingRelations(h, cs) ==
  UNION { UNION { { <<cs[i].id, h[cs[i].ref].relationships[k].type,
                      h[h[cs[i].ref].relationships[k].edges[e].target].id>> :
                      e \in 1..Len(h[cs[i].ref].relationships[k].edges) } :
                  k \in 1..Len(h[cs[i].ref].relationships) } :
          i \in 1..Len(cs) }

\* hasExistingRelation for the pair of concept objects source, target: some
\* registered relation type has a collected key in one of the two directions.
HasExistingRelation(existing, reg, h, source, target) ==
  \E relationType \in DOMAIN reg.types :
    \/ <<h[source].id, relationType, h[target].id>> \in existing
    \/ <<h[target].id, relationType, h[source].id>> \in existing

\* (a + b + c + d) / 4
Average(inferences) ==
  FDiv(FAdd(FAdd(FAdd(inferences[1].confidence, inferences[2].confidence),
                 inferences[3].confidence), inferences[4].confidence), 4)

\* inferences.sort((a, b) => b.confidence - a.confidence)[0]: the sort is
\* stable, so of equal confidences the earlier inference stays first.
BestInference(inferences) ==
  inferences[CHOOSE i \in 1..Len(inferences) :
               /\ \A j \in 1..Len(inferences) :
                    inferences[j].confidence <= inferences[i].confidence
               /\ \A j \in 1..(i - 1) :
                    inferences[j].confidence < inferences[i].confidence]

\* The relation type chosen for the best inference.
DiscoveredType(bestInference) ==
  IF FGt(bestInference.confidence, 700)
  THEN CASE bestInference.type = "deductive" -> "is-a"
         [] bestInference.type = "inductive" -> "similar-to"
         [] bestInference.type = "analogical" -> "similar-to"
         [] bestInference.type = "causal" -> "causes"
         [] OTHER -> "related-to"
  ELSE "related-to"

\* A test that lets every pair get a relationship.
CreatesAlways(hasExistingRelation, avgConfidence, threshold) == TRUE

\* Whether the loop body reaches its addRelationship for a pair: the pair
\* is not skipped (continue) and avgConfidence >= threshold.
Creates(hasExistingRelation, avgConfidence, threshold) ==
  ~hasExistingRelation /\ FGeq(avgConfidence, threshold)

\* The four inferences the loop body runs on a pair.
PairInferences(h, cs, source, target) ==
  << DeductiveInference(h, cs, source, target), InductiveInference(h, source, target),
     AnalogicalInference(h, source, target), CausalInference(h, source, target) >>

\* The loop body for the pair source, target on st = [heap, reg, discovered].
DiscoverPair(st, existing, cs, source, target, threshold, t) ==
  LET inferences == PairInferences(st.heap, cs, source, target)
      avgConfidence == Average(inferences)
  IN IF Creates(HasExistingRelation(existing, st.reg, st.heap, source, target),
                avgConfidence, threshold)
     THEN LET bestInference == BestInference(inferences)
              relationType == DiscoveredType(bestInference)
              r == AddRelationshipResult(st.heap, cs, st.reg, st.heap[source].id,
                                         relationType, st.heap[target].id, avgConfidence, t)
          IN [heap |-> r.heap, reg |-> r.reg,
              discovered |-> Append(st.discovered,
                                    [source |-> st.heap[source].id,
                                     target |-> st.heap[target].id,
                                     relationType |-> relationType,
                                     confidence |-> avgConfidence,
                                     inferenceType |-> bestInference.type])]
     ELSE st

\* The two nested for-loops from the pair (i, j) of positions in the
\* concepts map on, with the return once maxNewRelations were discovered.
RECURSIVE DiscoverLoop(_, _, _, _, _, _, _, _)
DiscoverLoop(st, existing, cs, i, j, threshold, maxNewRelations, t) ==
  IF i > Len(cs) THEN st
  ELSE IF j > Len(cs)
       THEN DiscoverLoop(st, existing, cs, i + 1, i + 2, threshold, maxNewRelations, t)
       ELSE LET next == DiscoverPair(st, existing, cs, cs[i].ref, cs[j].ref, threshold, t)
            IN IF /\ Len(next.discovered) > Len(st.discovered)
                  /\ Len(next.discovered) >= maxNewRelations
               THEN next
               ELSE DiscoverLoop(next, existing, cs, i, j + 1, threshold, maxNewRelations, t)

\* autoDiscoverRelationships(threshold, maxNewRelations) at time t: the
\* objects and registry after, and the list returned.
AutoDiscoverRelationships(h, cs, reg, threshold, maxNewRelations, t) ==
  DiscoverLoop([heap |-> h, reg |-> reg, discovered |-> <<>>],
               ExistingRelations(h, cs), cs, 1, 2, threshold, maxNewRelations, t)

(***************************************************************************)
(* SpecDiscover: on an engine holding dog, animal and food, relationships  *)
(* are added and autoDiscoverRelationships is called.                      *)
(***************************************************************************)
\* Edges under registered types, one under a free text.
DiscoverRelations ==
  { <<"dog", "is-a", "food", 900>>, <<"animal", "is-a", "food", 900>>,
    <<"dog", "causes", "animal", 800>>, <<"animal", "causes", "food", 800>>,
    <<"dog", "likes", "food", 500>> }

DiscoverThresholds == {0, 300, 500}

DiscoverLimits == {1, 10}

AutoDiscoverCall(threshold, maxNewRelations) ==
  /\ pc = "idle"
  /\ \E r \in {AutoDiscoverRelationships(heap, concepts, Registry, threshold,
                                         maxNewRelations, now)} :
       /\ heap' = r.heap
       /\ SetRegistry(r.reg)
       /\ lastCall' = [op |-> "autoDiscover", threshold |-> threshold,
                       maxNewRelations |-> maxNewRelations, result |-> r.discovered]
  /\ UNCHANGED <<now, concepts, thinkingHistory, workingMemory, capacity,
                 spreadVars, mindVars, timerVars, prevCall>>

NextDiscover ==
  \/ \E r \in DiscoverRelations : AddRelationship(r[1], r[2], r[3], r[4])
  \/ \E threshold \in DiscoverThresholds, m \in DiscoverLimits : AutoDiscoverCall(threshold, m)

SpecDiscover == InitSpread /\ [][NextDiscover]_vars

\* The concept objects of the engine.
ConceptRefs == {concepts[i].ref : i \in 1..Len(concepts)}

\* Whether, on the objects h, s and t have an edge between them in either
\* direction under a relation type of the registry reg.
Linked(h, reg, s, t) ==
  \E relationType \in DOMAIN reg.types :
    HasEdge(h[s], relationType, t) \/ HasEdge(h[t], relationType, s)

\* The edges s holds to t on the objects h: relation type and strength.
EdgesTo(h, s, t) ==
  LET rels == h[s].relationships
  IN { <<rels[k].type, rels[k].edges[TargetIndex(rels[k].edges, t)].strength>> :
         k \in {x \in 1..Len(rels) : TargetIndex(rels[x].edges, t) # 0} }

\* The returned list names the pair s, t (in either order).
Returned(result, h, s, t) ==
  \E i \in 1..Len(result) :
    \/ result[i].source = h[s].id /\ result[i].target = h[t].id
    \/ result[i].source = h[t].id /\ result[i].target = h[s].id

\* C11: an autoDiscoverRelationships call leaves every pair of concepts that
\* had, when it started, an edge between them in either direction under a
\* registered relation type as it was: no edge between the two is created
\* or changed, and the returned list does not name the pair.
C11_NoRelationForLinkedPair ==
  [][lastCall'.op = "autoDiscover" =>
       \A s \in ConceptRefs, t \in ConceptRefs :
         Linked(heap, Registry, s, t) =>
           /\ EdgesTo(heap', s, t) = EdgesTo(heap, s, t)
           /\ EdgesTo(heap', t, s) = EdgesTo(heap, t, s)
           /\ ~Returned(lastCall'.result, heap, s, t)]_vars

\* autoDiscoverRelationships(0, 10) has returned on an engine in which dog
\* and food have an is-a edge between them while dog and animal have none.
C11_Witness ==
  /\ lastCall.op = "autoDiscover"
  /\ lastCall.threshold = 0
  /\ lastCall.maxNewRelations = 10
  /\ Linked(heap, Registry, Ref("dog"), Ref("food"))
  /\ HasEdge(heap[Ref("dog")], "is-a", Ref("food"))
  /\ ~Linked(heap, Registry, Ref("dog"), Ref("animal"))
  /\ ~Returned(lastCall.result, heap, Ref("dog"), Ref("food"))

\* The average of the four confidences for a pair when the inductive one
\* counts the common relation types (commonRelations.length).
AverageWithCommonCount(h, cs, s, t) ==
  LET commonRelations == RelationKeys(h[s]) \cap RelationKeys(h[t])
  IN Average(<< DeductiveInference(h, cs, s, t),
                [confidence |-> InductiveSimilarity(h[s], h[t], ArrayLength(commonRelations)),
                 type |-> "inductive"],
                AnalogicalInference(h, s, t), CausalInference(h, s, t) >>)

\* On the objects h the pair at the positions i < j of the concepts map has
\* no edge between its two concepts and an average confidence >= threshold.
Qualifies(h, cs, i, j, threshold) ==
  /\ EdgesTo(h, cs[i].ref, cs[j].ref) = {}
  /\ EdgesTo(h, cs[j].ref, cs[i].ref) = {}
  /\ FGeq(AverageWithCommonCount(h, cs, cs[i].ref, cs[j].ref), threshold)

\* The pairs of positions the loops examine, i < j.
Pairs(cs) == {p \in (1..Len(cs)) \X (1..Len(cs)) : p[1] < p[2]}

\* The pair p is examined before the pair q.
Before(p, q) == p[1] < q[1] \/ (p[1] = q[1] /\ p[2] < q[2])

\* C12: an autoDiscoverRelationships(threshold, maxNew) call whose maxNew is
\* not below the number of pairs creates, for the first pair it examines
\* that has no edge between its concepts and whose four confidences average
\* to at least threshold, an edge from the first to the second concept with
\* that average as strength, and names the pair in the returned list.
C12_CreatesForQualifyingPair ==
  [][(lastCall'.op = "autoDiscover" /\ lastCall'.maxNewRelations >= Cardinality(Pairs(concepts))) =>
       \A p \in Pairs(concepts) :
         ( /\ Qualifies(heap, concepts, p[1], p[2], lastCall'.threshold)
           /\ \A q \in Pairs(concepts) :
                Before(q, p) => ~Qualifies(heap, concepts, q[1], q[2], lastCall'.threshold) )
         => /\ \E e \in EdgesTo(heap', concepts[p[1]].ref, concepts[p[2]].ref) :
                 e[2] = AverageWithCommonCount(heap, concepts, concepts[p[1]].ref,
                                               concepts[p[2]].ref)
            /\ Returned(lastCall'.result, heap, concepts[p[1]].ref, concepts[p[2]].ref)]_vars

(***************************************************************************)
(* SpecDeduce: deductiveInference and causalInference are applied to every *)
(* pair of concepts of an engine holding a, b, c, d and e, on every graph  *)
(* of is-a edges and every graph of causes edges that up to MaxChainCalls  *)
(* addRelationship calls build, in every order of the calls.               *)
(***************************************************************************)
ChainIds == <<"a", "b", "c", "d", "e">>

\* The relation type of the graph.
ChainTypes == {"is-a", "causes"}

\* The relationships to add: a chain from a to e, a shortcut into the chain
\* and a self-loop.
ChainRelations ==
  { <<"a", "b">>, <<"b", "c">>, <<"c", "d">>, <<"d", "e">>, <<"a", "d">>, <<"a", "a">> }

\* The sequences of n different relationships.
CallOrders(n) ==
  { q \in [1..n -> ChainRelations] : \A i \in 1..n, j \in 1..n : q[i] = q[j] => i = j }

\* addRelationship(s, relationType, t) for every <<s, t>> of calls, in
\* order, on the objects and registry of st.
RECURSIVE AddAll(_, _, _, _, _)
AddAll(st, cs, relationType, calls, t) ==
  IF calls = <<>> THEN st
  ELSE AddAll(AddRelationshipResult(st.heap, cs, st.reg, Head(calls)[1], relationType,
                                    Head(calls)[2], 1000, t),
              cs, relationType, Tail(calls), t)

InitDeduce ==
  /\ now = StartTime
  /\ concepts = [i \in 1..Len(ChainIds) |-> [id |-> ChainIds[i], ref |-> i]]
  /\ \E n \in 0..MaxChainCalls, relationType \in ChainTypes : \E calls \in CallOrders(n) :
       \E st \in {AddAll([heap |-> [i \in 1..Len(ChainIds) |->
                                      Concept(ChainIds[i], MergeAttributes(EmptyAttrs))],
                          reg |-> RegisterAll(EmptyRegistry, InitialTypes)],
                         concepts, relationType, calls, now)} :
         /\ heap = st.heap
         /\ relationshipTypes = st.reg.types
         /\ relationshipTypeMap = st.reg.map
         /\ relationshipTypeReverseMap = st.reg.rmap
  /\ workingMemory = <<>>
  /\ capacity = DefaultCapacity
  /\ thinkingHistory = <<>>
  /\ pc = "idle"
  /\ queue = <<>>
  /\ activatedConcepts = <<>>
  /\ spreadArgs = NoCall
  /\ mind = RegisterAll(EmptyRegistry, MindInitialTypes)
  /\ mindHeap = <<>>
  /\ mindConcepts = <<>>
  /\ autoDiscoveryInterval = 0
  /\ timers = {}
  /\ lastCall = NoCall
  /\ prevCall = NoCall

\* deductiveInference(source, target) on two concept objects of the engine.
DeduceCall(source, target) ==
  /\ pc = "idle"
  /\ lastCall' = [op |-> "deductiveInference", source |-> source, target |-> target,
                  result |-> DeductiveInference(heap, concepts, source, target)]
  /\ UNCHANGED <<now, heap, engineVars, workingMemory, capacity, spreadVars, mindVars, timerVars, prevCall>>

\* causalInference(source, target) on two concept objects of the engine.
CausalCall(source, target) ==
  /\ pc = "idle"
  /\ lastCall' = [op |-> "causalInference", source |-> source, target |-> target,
                  result |-> CausalInference(heap, source, target)]
  /\ UNCHANGED <<now, heap, engineVars, workingMemory, capacity, spreadVars, mindVars, timerVars, prevCall>>

NextDeduce ==
  \/ \E source \in ConceptRefs, target \in ConceptRefs : DeduceCall(source, target)
  \/ \E source \in ConceptRefs, target \in ConceptRefs : CausalCall(source, target)

SpecDeduce == InitDeduce /\ [][NextDeduce]_vars

\* On the objects h, target is reached from source by following at least
\* one and at most n edges of type relationType.
RECURSIVE ReachableWithin(_, _, _, _, _)
ReachableWithin(h, source, target, relationType, n) ==
  /\ n >= 1
  /\ \E i \in 1..Len(GetRelationships(h[source].relationships, relationType)) :
       LET next == GetRelationships(h[source].relationships, relationType)[i].target
       IN next = target \/ ReachableWithin(h, next, target, relationType, n - 1)

\* C14: deductiveInference(source, target) returns confidence 0.9 exactly
\* when target is reachable from source over one to three is-a edges, and
\* 0.3 otherwise.
C14_DeductionIffReachable ==
  lastCall.op = "deductiveInference" =>
    IF ReachableWithin(heap, lastCall.source, lastCall.target, "is-a", DeductionDepth)
    THEN lastCall.result.confidence = 900
    ELSE lastCall.result.confidence = 300

\* C15: causalInference(source, target) returns confidence 0.8 if source
\* holds a causes edge to target; otherwise 0.6 exactly when target is
\* reachable from source over one to three causes edges; otherwise 0.3.
C15_CausalConfidence ==
  lastCall.op = "causalInference" =>
    lastCall.result.confidence =
      IF HasEdge(heap[lastCall.source], "causes", lastCall.target) THEN 800
      ELSE IF ReachableWithin(heap, lastCall.source, lastCall.target, "causes", CausalDepth)
           THEN 600
           ELSE 300

(***************************************************************************)
(* decide                                                                  *)
(***************************************************************************)
\* calculateContextRelatedness(concept, context) for a context that maps
\* attribute keys to texts: the share of its entries the concept's
\* attributes match, 1.0 for the empty context.
CalculateContextRelatedness(c, context) ==
  IF DOMAIN context = {} THEN 1000
  ELSE FDiv(1000 * Cardinality({k \in DOMAIN context :
                                  k \in DOMAIN c.attrs /\ c.attrs[k] = context[k]}),
            Cardinality(DOMAIN context))

\* The initialActivation of the spreadActivation call decide makes; maxDepth
\* and decay are that method's defaults.
DecideActivation == 700

DefaultMaxDepth == 3

\* The evaluation of one option, for its concept object c at time t.
Evaluation(option, c, context, t) ==
  LET activation == GetActivationLevel(c, t)
      relatednessToContext == CalculateContextRelatedness(c, context)
  IN [option |-> option,
      activation |-> activation,
      weight |-> c.weight,
      frequency |-> c.frequency,
      relatednessToContext |-> relatednessToContext,
      confidence |-> Mul(activation, 300) + Mul(c.weight, 200) + Mul(c.frequency, 200)
                     + Mul(relatednessToContext, 300)]

\* The body of decide's for-loop for one option, on
\* st = [heap, wm, history, evaluations]: an unknown option is evaluated on
\* a new Concept that is stored nowhere.
EvaluateOption(st, cap, cs, option, context, t) ==
  LET known == GetConcept(cs, option)
      sp == SpreadActivation(st.heap, st.wm, st.history, cap, cs, option,
                             DecideActivation, DefaultMaxDepth, DefaultDecay, t)
      concept == IF known # 0 THEN sp.heap[known]
                 ELSE Concept(option, MergeAttributes(EmptyAttrs))
  IN [heap |-> sp.heap, wm |-> sp.wm, history |-> sp.history,
      evaluations |-> Append(st.evaluations, Evaluation(option, concept, context, t))]

RECURSIVE EvaluateOptions(_, _, _, _, _, _)
EvaluateOptions(st, cap, cs, options, context, t) ==
  IF options = <<>> THEN st
  ELSE EvaluateOptions(EvaluateOption(st, cap, cs, Head(options), context, t),
                       cap, cs, Tail(options), context, t)

\* A comparison that also moves an evaluation before one of equal confidence.
SortsBeforeOrTie(x, y) == x.confidence >= y.confidence

\* Whether the sort moves the evaluation x before the evaluation y that
\* precedes it: (a, b) => b.confidence - a.confidence is negative for (y, x)
\* only if x has the higher confidence; the sort is stable.
SortsBefore(x, y) == x.confidence > y.confidence

\* x put into the sorted list at its place.
RECURSIVE Insert(_, _)
Insert(sorted, x) ==
  IF sorted # <<>> /\ SortsBefore(x, sorted[Len(sorted)])
  THEN Append(Insert(SubSeq(sorted, 1, Len(sorted) - 1), x), sorted[Len(sorted)])
  ELSE Append(sorted, x)

\* evaluations.sort((a, b) => b.confidence - a.confidence)
RECURSIVE SortEvaluations(_)
SortEvaluations(evaluations) ==
  IF evaluations = <<>> THEN <<>>
  ELSE Insert(SortEvaluations(SubSeq(evaluations, 1, Len(evaluations) - 1)),
              evaluations[Len(evaluations)])

\* The record decide appends to thinkingHistory.
DecisionRecord(bestOption) ==
  [type |-> "decision", chosen |-> bestOption.option, confidence |-> bestOption.confidence]

\* decide(options, context) at time t: the objects, working memory and
\* history after, whether a TypeError was thrown, and the value returned.
\* With no option evaluations[0] is undefined and reading its option throws
\* before anything is appended or returned.
Decide(h, wm, hist, cap, cs, options, context, t) ==
  LET st == EvaluateOptions([heap |-> h, wm |-> wm, history |-> hist, evaluations |-> <<>>],
                            cap, cs, options, context, t)
      evaluations == SortEvaluations(st.evaluations)
  IN IF evaluations = <<>>
     THEN [heap |-> st.heap, wm |-> st.wm, history |-> st.history, threw |-> TRUE,
           result |-> Null]
     ELSE [heap |-> st.heap, wm |-> st.wm,
           history |-> Append(st.history, DecisionRecord(evaluations[1])),
           threw |-> FALSE,
           result |-> [chosen |-> evaluations[1].option,
                       confidence |-> evaluations[1].confidence,
                       evaluations |-> evaluations]]

(***************************************************************************)
(* SpecDecide: on an engine holding a hammer (category tool) and a doll    *)
(* (category toy), relationships are added, the clock moves and decide is  *)
(* called with lists of known and unknown options.                         *)
(***************************************************************************)
DecideConcepts == << <<"hammer", "tool">>, <<"doll", "toy">> >>

DecideRelations == { <<"hammer", "similar-to", "doll", 900>>, <<"doll", "needs", "hammer", 500>> }

DecideOptions ==
  { <<>>, <<"hammer">>, <<"ghost">>, <<"hammer", "doll">>, <<"doll", "hammer">>,
    <<"ghost", "doll">>, <<"doll", "doll">> }

DecideContexts == { <<>>, [k \in {"category"} |-> "tool"], [k \in {"category"} |-> "toy"] }

InitDecide ==
  /\ now = StartTime
  /\ heap = [i \in 1..Len(DecideConcepts) |->
               Concept(DecideConcepts[i][1],
                       MergeAttributes([k \in {"category"} |-> DecideConcepts[i][2]]))]
  /\ concepts = [i \in 1..Len(DecideConcepts) |-> [id |-> DecideConcepts[i][1], ref |-> i]]
  /\ relationshipTypes = RegisterAll(EmptyRegistry, InitialTypes).types
  /\ relationshipTypeMap = RegisterAll(EmptyRegistry, InitialTypes).map
  /\ relationshipTypeReverseMap = RegisterAll(EmptyRegistry, InitialTypes).rmap
  /\ workingMemory = <<>>
  /\ capacity = DefaultCapacity
  /\ thinkingHistory = <<>>
  /\ pc = "idle"
  /\ queue = <<>>
  /\ activatedConcepts = <<>>
  /\ spreadArgs = NoCall
  /\ mind = RegisterAll(EmptyRegistry, MindInitialTypes)
  /\ mindHeap = <<>>
  /\ mindConcepts = <<>>
  /\ autoDiscoveryInterval = 0
  /\ timers = {}
  /\ lastCall = [op |-> "addConcept", id |-> "doll"]
  /\ prevCall = NoCall

DecideCall(options, context) ==
  /\ pc = "idle"
  /\ Len(thinkingHistory) < MaxHistory
  /\ \E r \in {Decide(heap, workingMemory, thinkingHistory, capacity, concepts,
                      options, context, now)} :
       /\ heap' = r.heap
       /\ workingMemory' = r.wm
       /\ thinkingHistory' = r.history
       /\ lastCall' = [op |-> "decide", options |-> options, context |-> context,
                       threw |-> r.threw, result |-> r.result]
  /\ UNCHANGED <<now, concepts, relationshipTypes, relationshipTypeMap,
                 relationshipTypeReverseMap, capacity, spreadVars, mindVars, timerVars, prevCall>>

NextDecide ==
  \/ \E r \in DecideRelations : AddRelationship(r[1], r[2], r[3], r[4])
  \/ \E options \in DecideOptions, context \in DecideContexts : DecideCall(options, context)
  \/ Tick

SpecDecide == InitDecide /\ [][NextDecide]_vars

\* decide has returned a result for a non-empty list of options.
Decided == lastCall.op = "decide" /\ lastCall.options # <<>> /\ ~lastCall.threw

\* The positions in options of the options that have an evaluation of the
\* highest confidence.
BestPositions(options, evaluations) ==
  { i \in 1..Len(options) :
      \E k \in 1..Len(evaluations) :
        /\ evaluations[k].option = options[i]
        /\ \A l \in 1..Len(evaluations) : evaluations[l].confidence <= evaluations[k].confidence }

\* C16: decide on a non-empty list returns the highest confidence of its
\* evaluations, each being 0.3 activation + 0.2 weight + 0.2 frequency +
\* 0.3 relatedness, and as chosen the first option in options that reached
\* it; no evaluation equal to the chosen one in activation, weight and
\* frequency has a higher context relatedness.
C16_ChoosesFirstMaximum ==
  Decided =>
    LET evaluations == lastCall.result.evaluations
        best == BestPositions(lastCall.options, evaluations)
    IN /\ Len(evaluations) = Len(lastCall.options)
       /\ \A k \in 1..Len(evaluations) :
            evaluations[k].confidence =
              Mul(evaluations[k].activation, 300) + Mul(evaluations[k].weight, 200)
              + Mul(evaluations[k].frequency, 200)
              + Mul(evaluations[k].relatednessToContext, 300)
       /\ \A k \in 1..Len(evaluations) :
            evaluations[k].confidence <= lastCall.result.confidence
       /\ lastCall.result.chosen = lastCall.options[CHOOSE i \in best : \A j \in best : i <= j]
       /\ \A k \in 1..Len(evaluations) :
            ( /\ evaluations[k].activation = evaluations[1].activation
              /\ evaluations[k].weight = evaluations[1].weight
              /\ evaluations[k].frequency = evaluations[1].frequency )
            => evaluations[k].relatednessToContext <= evaluations[1].relatednessToContext

\* decide(['doll', 'hammer'], {category: 'tool'}) has returned: the two
\* evaluations are equal in activation, weight and frequency, and hammer,
\* the second option, is chosen for its higher context relatedness.
C16_Witness ==
  /\ Decided
  /\ lastCall.options = <<"doll", "hammer">>
  /\ lastCall.result.chosen = "hammer"
  /\ LET evaluations == lastCall.result.evaluations
     IN /\ Len(evaluations) = 2
        /\ evaluations[1].activation = evaluations[2].activation
        /\ evaluations[1].weight = evaluations[2].weight
        /\ evaluations[1].frequency = evaluations[2].frequency
        /\ evaluations[1].relatednessToContext > evaluations[2].relatednessToContext

\* C17: a decide call returns a result object, whatever its options list
\* and context; it does not end by throwing.
C17_DecideReturns ==
  lastCall.op = "decide" => ~lastCall.threw

\* C18: an addRelationship call whose sourceId or targetId is not a known
\* concept id changes nothing: no concept object, no relation-type
\* registration, not working memory and not thinkingHistory.
C18_UnknownIdIsNoOp ==
  [][(lastCall'.op = "addRelationship" /\ (lastCall'.source = 0 \/ lastCall'.target = 0)) =>
       UNCHANGED <<heap, concepts, relationshipTypes, relationshipTypeMap,
                   relationshipTypeReverseMap, workingMemory, thinkingHistory>>]_vars

\* addRelationship(s, 'is-a', t) was called with s known and t unknown: no
\* concept holds an edge and has-subtype is not registered.
C18_Witness ==
  /\ lastCall.op = "addRelationship"
  /\ lastCall.relationType = "is-a"
  /\ lastCall.source # 0
  /\ lastCall.target = 0
  /\ EdgeCount(heap) = 0
  /\ "has-subtype" \notin DOMAIN relationshipTypes

\* C19: an infer call whose sourceId or targetId is not a known concept id
\* returns null and changes nothing: no concept object (activation,
\* frequency, edges), not working memory and not thinkingHistory.
C19_UnknownIdInfersNull ==
  [][(lastCall'.op = "infer" /\ (lastCall'.source = 0 \/ lastCall'.target = 0)) =>
       /\ lastCall'.result = Null
       /\ UNCHANGED <<heap, concepts, relationshipTypes, relationshipTypeMap,
                      relationshipTypeReverseMap, workingMemory, thinkingHistory>>]_vars

\* infer('dog', 'ghost', 'deduction') has returned null on an engine in
\* which dog holds edges: dog was not activated, working memory and
\* thinkingHistory are empty.
C19_Witness ==
  /\ lastCall.op = "infer"
  /\ lastCall.sourceId = "dog"
  /\ lastCall.targetId = "ghost"
  /\ lastCall.inferenceType = "deduction"
  /\ lastCall.target = 0
  /\ lastCall.result = Null
  /\ heap[Ref("dog")].relationships # <<>>
  /\ heap[Ref("dog")].activation = 0
  /\ heap[Ref("dog")].frequency = 1000
  /\ workingMemory = <<>>
  /\ thinkingHistory = <<>>

\* C20: in every state reached by addConcept and addRelationship calls (with
\* registered and unregistered relation-type texts), every relation type
\* under which some concept holds an edge is registered in relationshipTypes.
C20_EdgeTypesRegistered ==
  \A c \in ConceptRefs :
    \A i \in 1..Len(heap[c].relationships) :
      heap[c].relationships[i].edges # <<>> =>
        heap[c].relationships[i].type \in DOMAIN relationshipTypes

(***************************************************************************)
(* SpecStrength: relationships are added with strengths of [0.1, 2.0],     *)
(* learn and autoDiscoverRelationships are called.                         *)
(***************************************************************************)
\* The least and the greatest strength of the documented range.
MinStrength == 100

MaxStrength == 2000

\* Strengths of [0.1, 2.0]: both ends and the default.
RangeStrengths == {MinStrength, 1000, MaxStrength}

StrengthRelations ==
  { <<"dog", "is-a", "animal">>, <<"animal", "causes", "food">>,
    <<"dog", "is-a", "dog">> }

StrengthExperiences ==
  { <<"dog", "is-a", "animal">>, <<"animal", "has-subtype", "dog">>,
    <<"food", "caused-by", "animal">>, <<"dog", "is-a", "dog">> }

NextStrength ==
  \/ \E r \in StrengthRelations, w \in RangeStrengths : AddRelationship(r[1], r[2], r[3], w)
  \/ /\ Len(thinkingHistory) < MaxStrengthLearns
     /\ \E e \in StrengthExperiences, outcome \in BOOLEAN :
          LearnCall(e[1], e[2], e[3], outcome, 1000)
  \/ \E threshold \in DiscoverThresholds : AutoDiscoverCall(threshold, 10)

SpecStrength == InitSpread /\ [][NextStrength]_vars

\* C21: in every state reached by addRelationship calls with a strength of
\* [0.1, 2.0], learn calls and autoDiscoverRelationships calls, the strength
\* of every edge record of every concept lies in [0.1, 2.0].
C21_StrengthsInRange ==
  \A c \in ConceptRefs :
    \A i \in 1..Len(heap[c].relationships) :
      \A j \in 1..Len(heap[c].relationships[i].edges) :
        /\ heap[c].relationships[i].edges[j].strength >= MinStrength
        /\ heap[c].relationships[i].edges[j].strength <= MaxStrength

(***************************************************************************)
(* generateVisualizationData                                               *)
(***************************************************************************)
\* `${sourceId}-${relationType}-${targetId}`
EdgeKey(sourceId, relationType, targetId) ==
  sourceId \o "-" \o relationType \o "-" \o targetId

\* edgeIds.has(edgeKey) || edgeIds.has(reverseEdgeKey)
Seen(edgeIds, edgeKey, reverseEdgeKey) ==
  edgeKey \in edgeIds \/ reverseEdgeKey \in edgeIds

\* The body of the innermost loop for one edge record of the concept stored
\* under sourceId: acc holds the registry, the edges pushed and edgeIds.
VisualizeEdge(acc, h, sourceId, relationType, edge) ==
  LET targetId == h[edge.target].id
      rev == GetReverseRelationType(reverseMap, acc.reg, relationType)
      edgeKey == EdgeKey(sourceId, relationType, targetId)
      reverseEdgeKey == EdgeKey(targetId, rev.result, sourceId)
  IN IF ~Seen(acc.edgeIds, edgeKey, reverseEdgeKey)
     THEN [reg |-> rev.reg,
           edges |-> Append(acc.edges,
                            [from |-> sourceId, to |-> targetId,
                             label |-> GetRelationshipTypeChinese(rev.reg, relationType),
                             value |-> edge.strength]),
           edgeIds |-> acc.edgeIds \cup {edgeKey}]
     ELSE [acc EXCEPT !.reg = rev.reg]

\* for (const [target, relationInfo] of targets), from position j
RECURSIVE VisualizeTargets(_, _, _, _, _, _)
VisualizeTargets(acc, h, sourceId, relationType, targets, j) ==
  IF j > Len(targets) THEN acc
  ELSE VisualizeTargets(VisualizeEdge(acc, h, sourceId, relationType, targets[j]),
                        h, sourceId, relationType, targets, j + 1)

\* for (const [relationType, targets] of concept.getRelationships()), from
\* position i
RECURSIVE VisualizeRelations(_, _, _, _, _)
VisualizeRelations(acc, h, sourceId, rels, i) ==
  IF i > Len(rels) THEN acc
  ELSE VisualizeRelations(
         VisualizeTargets(acc, h, sourceId, rels[i].type, rels[i].edges, 1),
         h, sourceId, rels, i + 1)

\* for (const [sourceId, concept] of this.concepts), from position k
RECURSIVE VisualizeConcepts(_, _, _, _)
VisualizeConcepts(acc, h, cs, k) ==
  IF k > Len(cs) THEN acc
  ELSE VisualizeConcepts(
         VisualizeRelations(acc, h, cs[k].id, h[cs[k].ref].relationships, 1),
         h, cs, k + 1)

\* generateVisualizationData() at time t: the nodes and edges returned and
\* the registry after the getReverseRelationType calls of the loop.
GenerateVisualizationData(h, cs, reg, t) ==
  LET acc == VisualizeConcepts([reg |-> reg, edges |-> <<>>, edgeIds |-> {}], h, cs, 1)
  IN [nodes |-> [k \in 1..Len(cs) |->
                   [id |-> cs[k].id, value |-> GetActivationLevel(h[cs[k].ref], t)]],
      edges |-> acc.edges,
      reg |-> acc.reg]

(***************************************************************************)
(* SpecVisual: concepts are added in either order, relationships are       *)
(* added, the snapshot is exported.                                        *)
(***************************************************************************)
\* Relation types: with an inverse of another name, self-inverse,
\* unregistered.
VisualRelations == {"is-a", "similar-to", "likes"}

GenerateVisualizationDataCall ==
  /\ pc = "idle"
  /\ \E r \in {GenerateVisualizationData(heap, concepts, Registry, now)} :
       /\ SetRegistry(r.reg)
       /\ lastCall' = [op |-> "generateVisualizationData",
                       nodes |-> r.nodes, edges |-> r.edges]
  /\ prevCall' = lastCall
  /\ UNCHANGED <<now, heap, concepts, thinkingHistory, workingMemory, capacity,
                 spreadVars, mindVars, timerVars>>

NextVisual ==
  \/ \E id \in ConceptIds : AddConcept(id, EmptyAttrs)
  \/ \E s \in ConceptIds, t \in ConceptIds, r \in VisualRelations :
       AddRelationship(s, r, t, 1000)
  \/ GenerateVisualizationDataCall

SpecVisual == InitEngine /\ [][NextVisual]_vars

\* The snapshot was exported right after an addRelationship call on known
\* concepts.
Visualized ==
  /\ lastCall.op = "generateVisualizationData"
  /\ prevCall.op = "addRelationship"
  /\ prevCall.source # 0
  /\ prevCall.target # 0

\* How many exported edges go from fromId to toId under relationType.
Emitted(edges, fromId, relationType, toId) ==
  Cardinality({k \in 1..Len(edges) :
                 /\ edges[k].from = fromId
                 /\ edges[k].to = toId
                 /\ edges[k].label = GetRelationshipTypeChinese(Registry, relationType)})

\* C22: the snapshot exported after addRelationship(s, R, t) holds exactly
\* one of the two directions of that relationship, the authored edge s -> t
\* or its mirrored edge t -> s, whatever the relation type and the order in
\* which s and t were added.
C22_OneDirectionEmitted ==
  Visualized =>
    LET s == prevCall.sourceId
        t == prevCall.targetId
        relationType == prevCall.canonical
        reverseRelationType == ReverseType(reverseMap, relationType)
    IN IF s = t /\ relationType = reverseRelationType
       THEN Emitted(lastCall.edges, s, relationType, t) = 1
       ELSE Emitted(lastCall.edges, s, relationType, t)
              + Emitted(lastCall.edges, t, reverseRelationType, s) = 1

(***************************************************************************)
(* startAutoDiscovery, stopAutoDiscovery, isAutoDiscovering.  A timer of   *)
(* the host is a record of its handle and of the arguments its callback    *)
(* closes over; autoDiscoveryInterval is a handle, 0 for null.             *)
(***************************************************************************)
\* The handles setInterval may return: positive, so truthy.
TimerHandles == 1..MaxTimers

\* The handles of the timers ts.
Handles(ts) == {x.handle : x \in ts}

\* A clearInterval that leaves the timer running.
ClearIntervalNoOp(ts, handle) == ts

\* clearInterval(handle) on the host's timers ts
ClearInterval(ts, handle) == {x \in ts : x.handle # handle}

\* stopAutoDiscovery(): the handle field and the host's timers after.
StopAutoDiscoveryResult(interval, ts) ==
  IF interval # 0
  THEN [interval |-> 0, timers |-> ClearInterval(ts, interval)]
  ELSE [interval |-> interval, timers |-> ts]

\* The first statement of startAutoDiscovery: a running discovery is stopped.
StopIfRunning(interval, ts) ==
  IF interval # 0
  THEN StopAutoDiscoveryResult(interval, ts)
  ELSE [interval |-> interval, timers |-> ts]

\* startAutoDiscovery(interval, threshold, maxNewRelations) when setInterval
\* returns handle: the handle field and the host's timers after.
StartAutoDiscoveryResult(interval, ts, handle, threshold, maxNewRelations) ==
  [interval |-> handle,
   timers |-> StopIfRunning(interval, ts).timers
                \cup {[handle |-> handle, threshold |-> threshold,
                       maxNewRelations |-> maxNewRelations]}]

\* isAutoDiscovering()
IsAutoDiscovering(interval) == interval # 0

\* startAutoDiscovery(interval, threshold, maxNewRelations): setInterval
\* returns a handle no running timer has.
StartAutoDiscovery(threshold, maxNewRelations) ==
  /\ pc = "idle"
  /\ \E handle \in TimerHandles \ Handles(StopIfRunning(autoDiscoveryInterval, timers).timers) :
       \E r \in {StartAutoDiscoveryResult(autoDiscoveryInterval, timers, handle,
                                          threshold, maxNewRelations)} :
         /\ autoDiscoveryInterval' = r.interval
         /\ timers' = r.timers
         /\ lastCall' = [op |-> "startAutoDiscovery", cancelled |-> autoDiscoveryInterval,
                         handle |-> handle]
  /\ UNCHANGED <<now, heap, engineVars, workingMemory, capacity, spreadVars,
                 mindVars, prevCall>>

\* stopAutoDiscovery()
StopAutoDiscovery ==
  /\ pc = "idle"
  /\ \E r \in {StopAutoDiscoveryResult(autoDiscoveryInterval, timers)} :
       /\ autoDiscoveryInterval' = r.interval
       /\ timers' = r.timers
  /\ lastCall' = [op |-> "stopAutoDiscovery"]
  /\ UNCHANGED <<now, heap, engineVars, workingMemory, capacity, spreadVars,
                 mindVars, prevCall>>

\* The callback of a running timer: autoDiscoverRelationships with the
\* arguments the timer was started with.
TimerFires ==
  /\ pc = "idle"
  /\ \E x \in timers :
       \E r \in {AutoDiscoverRelationships(heap, concepts, Registry, x.threshold,
                                           x.maxNewRelations, now)} :
         /\ heap' = r.heap
         /\ SetRegistry(r.reg)
         /\ lastCall' = [op |-> "autoDiscoveryTimer", handle |-> x.handle,
                         result |-> r.discovered]
  /\ UNCHANGED <<now, concepts, thinkingHistory, workingMemory, capacity,
                 spreadVars, mindVars, timerVars, prevCall>>

(***************************************************************************)
(* SpecTimer: relationships are added, periodic discovery is started and   *)
(* stopped, running timers fire.                                           *)
(***************************************************************************)
TimerThresholds == {0, 500}

\* The default maxNewRelations of startAutoDiscovery.
DefaultTimerLimit == 5

NextTimer ==
  \/ \E r \in DiscoverRelations : AddRelationship(r[1], r[2], r[3], r[4])
  \/ \E threshold \in TimerThresholds : StartAutoDiscovery(threshold, DefaultTimerLimit)
  \/ StopAutoDiscovery
  \/ TimerFires

SpecTimer == InitSpread /\ [][NextTimer]_vars

\* At most one timer runs, and isAutoDiscovering() tells whether one does.
OneTimer ==
  /\ Cardinality(timers) <= 1
  /\ IsAutoDiscovering(autoDiscoveryInterval) <=> timers # {}

\* C23: after any startAutoDiscovery and stopAutoDiscovery calls at most one
\* discovery timer is active, isAutoDiscovering() is true exactly when one
\* is, and a timer callback runs only while the engine holds the handle of
\* its timer: never between a stopAutoDiscovery and the next
\* startAutoDiscovery.
C23_AtMostOneTimer ==
  /\ []OneTimer
  /\ [][(lastCall'.op = "autoDiscoveryTimer" /\ lastCall' # lastCall) =>
          /\ IsAutoDiscovering(autoDiscoveryInterval)
          /\ lastCall'.handle = autoDiscoveryInterval]_vars

\* startAutoDiscovery was called while a timer was running: the timer of the
\* earlier call is gone and the one just started is the only one.
C23_Witness ==
  /\ lastCall.op = "startAutoDiscovery"
  /\ lastCall.cancelled # 0
  /\ lastCall.handle # lastCall.cancelled
  /\ Handles(timers) = {lastCall.handle}
  /\ autoDiscoveryInterval = lastCall.handle

\* How many entries of the sequence entries are for the concept object c.
EntriesFor(entries, c) ==
  Cardinality({i \in 1..Len(entries) : entries[i].concept = c})

\* C24: in every iteration of the while-loop of a spreadActivation call, on
\* every graph (cycles and strong mutual edges included), a concept already
\* recorded in the result is not activated again, keeps its record and is not
\* enqueued; a concept not yet recorded is activated at most once, recorded
\* at most once and enqueued at most once.  A concept is recorded when it is
\* activated, so no concept is activated, recorded or enqueued twice in one
\* call.
C24_ActivatedAtMostOnce ==
  [][(pc = "spreading" /\ pc' = "spreading") =>
       /\ SubSeq(activatedConcepts', 1, Len(activatedConcepts)) = activatedConcepts
       /\ \A c \in 1..Len(heap) :
            LET recorded == ActivatedIndex(activatedConcepts, c) # 0
                enqueued == SubSeq(queue', Len(queue), Len(queue'))
            IN /\ recorded => heap'[c] = heap[c]
               /\ heap'[c].frequency - heap[c].frequency \in {0, 100}
               /\ heap'[c] # heap[c] => ActivatedIndex(activatedConcepts', c) # 0
               /\ EntriesFor(activatedConcepts', c) <= 1
               /\ EntriesFor(enqueued, c) <= (IF recorded THEN 0 ELSE 1)]_vars

\* spreadActivation('dog', 0.8, 3, 1.0) has returned on the chain dog is-a
\* animal, animal needs food with its mirrored edges: all three concepts are
\* in the result, each was activated once, although the mirrored edge from
\* animal back to dog carries an activation above its threshold.
C24_Witness ==
  /\ lastCall.op = "spreadActivation"
  /\ lastCall.sourceId = "dog"
  /\ lastCall.maxDepth = 3
  /\ lastCall.decay = 1000
  /\ Len(lastCall.result) = 3
  /\ HasEdge(heap[Ref("animal")], "has-subtype", Ref("dog"))
  /\ Propagation(lastCall.result[2].activation,
                 EdgeOf(heap[Ref("animal")], "has-subtype", Ref("dog")).strength,
                 lastCall.decay, 1) > DefaultThreshold
  /\ \A c \in ConceptRefs : heap[c].frequency = 1100

\* C25: a learn call changes the strength of no edge but the edge from its
\* source to its target under its relationType; every other edge record of
\* every concept (the mirrored edge included) keeps its strength, and every
\* concept keeps its relation types and the targets under each.
C25_LearnChangesOneEdge ==
  [][lastCall'.op = "learn" =>
       \A c \in 1..Len(heap) :
         LET before == heap[c].relationships
             after == heap'[c].relationships
         IN /\ Len(after) = Len(before)
            /\ \A i \in 1..Len(before) :
                 /\ after[i].type = before[i].type
                 /\ Len(after[i].edges) = Len(before[i].edges)
                 /\ \A j \in 1..Len(before[i].edges) :
                      /\ after[i].edges[j].target = before[i].edges[j].target
                      /\ after[i].edges[j].strength # before[i].edges[j].strength =>
                           /\ c = lastCall'.source
                           /\ before[i].type = lastCall'.relationType
                           /\ before[i].edges[j].target = lastCall'.target]_vars

\* learn({source: 'dog', target: 'dog', relationType: 'is-a', outcome: true})
\* after addRelationship('dog', 'is-a', 'dog', 1.0): the is-a edge of dog to
\* itself was raised to 2.0 and its mirrored has-subtype edge still has 0.8.
C25_Witness ==
  /\ lastCall.op = "learn"
  /\ lastCall.sourceId = "dog"
  /\ lastCall.targetId = "dog"
  /\ lastCall.relationType = "is-a"
  /\ lastCall.outcome
  /\ HasEdge(heap[Ref("dog")], "is-a", Ref("dog"))
  /\ EdgeOf(heap[Ref("dog")], "is-a", Ref("dog")).strength = 2000
  /\ HasEdge(heap[Ref("dog")], "has-subtype", Ref("dog"))
  /\ EdgeOf(heap[Ref("dog")], "has-subtype", Ref("dog")).strength = 800

\* C26: in every state reached by addConcept calls (an existing id re-added
\* included) and addRelationship calls, every edge target held by a concept
\* of the concepts map is the object the map stores under the target's id.
C26_TargetsAreOwned ==
  \A c \in ConceptRefs :
    \A i \in 1..Len(heap[c].relationships) :
      \A j \in 1..Len(heap[c].relationships[i].edges) :
        LET target == heap[c].relationships[i].edges[j].target
        IN GetConcept(concepts, heap[target].id) = target

(***************************************************************************)
(* class MindModel: concepts, relationships, clusterConcepts.  A Concept   *)
(* of the mind model holds, per relation type, a Set of target objects.    *)
(***************************************************************************)
\* new Concept(id, name, attributes) of mind_model.js
MindConcept(id, attributes) ==
  [id |-> id, attrs |-> attributes, relationships |-> <<>>]

\* Concept.addRelationship(relationType, targetConcept) of mind_model.js on
\* the relationships map rels.
MindConceptAddRelationship(rels, relationType, target) ==
  LET i == TypeIndex(rels, relationType)
  IN IF i = 0
     THEN Append(rels, [type |-> relationType, targets |-> <<target>>])
     ELSE [rels EXCEPT ![i].targets = SetAdd(@, target)]

\* MindModel.addRelationship(sourceId, relationType, targetId) on the objects
\* h, the concepts map cs and the registry reg: the objects and the registry
\* after.
MindAddRelationshipResult(h, cs, reg, sourceId, relationType, targetId) ==
  LET source == GetConcept(cs, sourceId)
      target == GetConcept(cs, targetId)
  IN IF source # 0 /\ target # 0
     THEN LET englishRelationType == GetRelationshipTypeEnglish(reg, relationType)
              h1 == [h EXCEPT ![source].relationships =
                       MindConceptAddRelationship(@, englishRelationType, target)]
              rev == GetReverseRelationType(mindReverseMap, reg, englishRelationType)
              h2 == IF rev.result # ""
                    THEN [h1 EXCEPT ![target].relationships =
                            MindConceptAddRelationship(@, rev.result, source)]
                    ELSE h1
          IN [heap |-> h2, reg |-> rev.reg]
     ELSE [heap |-> h, reg |-> reg]

\* All targets of a relationships map of the mind model, in the order the
\* two nested for-loops visit them.
RECURSIVE MindTargets(_)
MindTargets(rels) ==
  IF rels = <<>> THEN <<>> ELSE Head(rels).targets \o MindTargets(Tail(rels))

\* The targets of current that are pushed: those whose id is not visited.
RECURSIVE Unvisited(_, _, _)
Unvisited(h, targets, visited) ==
  IF targets = <<>> THEN <<>>
  ELSE IF h[Head(targets)].id \notin visited
       THEN <<Head(targets)>> \o Unvisited(h, Tail(targets), visited)
       ELSE Unvisited(h, Tail(targets), visited)

\* The while-loop of clusterConcepts on the queue (of objects), the visited
\* ids and the cluster (of objects) so far.
RECURSIVE ClusterWhile(_, _, _, _)
ClusterWhile(h, bfs, visited, cluster) ==
  IF bfs = <<>> THEN [visited |-> visited, cluster |-> cluster]
  ELSE LET current == Head(bfs)
       IN IF h[current].id \in visited
          THEN ClusterWhile(h, Tail(bfs), visited, cluster)
          ELSE ClusterWhile(h,
                 Tail(bfs) \o Unvisited(h, MindTargets(h[current].relationships),
                                        visited \cup {h[current].id}),
                 visited \cup {h[current].id},
                 cluster \cup {current})

\* The for-loop of clusterConcepts over the concepts map, from position k.
RECURSIVE ClusterFor(_, _, _, _, _)
ClusterFor(h, cs, k, visited, clusters) ==
  IF k > Len(cs) THEN clusters
  ELSE IF cs[k].id \in visited
       THEN ClusterFor(h, cs, k + 1, visited, clusters)
       ELSE LET w == ClusterWhile(h, <<cs[k].ref>>, visited, {})
            IN ClusterFor(h, cs, k + 1, w.visited,
                          Append(clusters, [id |-> cs[k].id, cluster |-> w.cluster]))

\* clusterConcepts(): the clusters map, in insertion order.
ClusterConcepts(h, cs) == ClusterFor(h, cs, 1, {}, <<>>)

\* Edge records held by the objects of the mind model.
RECURSIVE MindEdgeCount(_)
MindEdgeCount(h) ==
  IF h = <<>> THEN 0
  ELSE Len(MindTargets(Head(h).relationships)) + MindEdgeCount(Tail(h))

(***************************************************************************)
(* SpecCluster: concepts and relationships are added to the mind model and *)
(* clusterConcepts is called.                                              *)
(***************************************************************************)
MindIds == {"a", "b", "c"}

MindRelations == {"is-a", "likes"}

\* mindModel.addConcept(id, name, attributes)
MindAddConcept(id, attributes) ==
  /\ Len(mindHeap) < MaxMindObjects
  /\ mindHeap' = Append(mindHeap, MindConcept(id, attributes))
  /\ mindConcepts' = ConceptsSet(mindConcepts, id, Len(mindHeap) + 1)
  /\ lastCall' = [op |-> "mind.addConcept", id |-> id]
  /\ UNCHANGED <<now, heap, engineVars, workingMemory, capacity, spreadVars, mind,
                 timerVars, prevCall>>

\* mindModel.addRelationship(sourceId, relationType, targetId)
MindAddRelationship(sourceId, relationType, targetId) ==
  /\ MindEdgeCount(mindHeap) + 2 <= MaxMindEdges
  /\ \E r \in {MindAddRelationshipResult(mindHeap, mindConcepts, mind, sourceId,
                                         relationType, targetId)} :
       /\ mindHeap' = r.heap
       /\ mind' = r.reg
  /\ lastCall' = [op |-> "mind.addRelationship", sourceId |-> sourceId,
                  relationType |-> relationType, targetId |-> targetId]
  /\ UNCHANGED <<now, heap, engineVars, workingMemory, capacity, spreadVars,
                 mindConcepts, timerVars, prevCall>>

\* mindModel.clusterConcepts()
ClusterConceptsCall ==
  /\ lastCall' = [op |-> "mind.clusterConcepts",
                  result |-> ClusterConcepts(mindHeap, mindConcepts)]
  /\ UNCHANGED <<now, heap, engineVars, workingMemory, capacity, spreadVars,
                 mindVars, timerVars, prevCall>>

NextCluster ==
  \/ \E id \in MindIds : MindAddConcept(id, EmptyAttrs)
  \/ \E s \in MindIds, t \in MindIds, r \in MindRelations : MindAddRelationship(s, r, t)
  \/ ClusterConceptsCall

SpecCluster == InitEngine /\ [][NextCluster]_vars

\* The ids of the mind model's concepts map.
MindConceptIds == {mindConcepts[k].id : k \in 1..Len(mindConcepts)}

\* The concept stored under x holds an edge to an object of id y.
MindHolds(x, y) ==
  \E target \in {t \in 1..Len(mindHeap) : mindHeap[t].id = y} :
    \E i \in 1..Len(mindHeap[GetConcept(mindConcepts, x)].relationships) :
      \E j \in 1..Len(mindHeap[GetConcept(mindConcepts, x)].relationships[i].targets) :
        mindHeap[GetConcept(mindConcepts, x)].relationships[i].targets[j] = target

\* The ids reached from the ids of the set reached by edges taken in either
\* direction, in at most n steps.
RECURSIVE MindReach(_, _)
MindReach(reached, n) ==
  IF n = 0 THEN reached
  ELSE MindReach(reached \cup {y \in MindConceptIds :
                                 \E x \in reached : MindHolds(x, y) \/ MindHolds(y, x)},
                 n - 1)

\* x and y are connected by a chain of relationship edges.
MindConnected(x, y) == y \in MindReach({x}, Cardinality(MindConceptIds))

\* The concept ids of the objects of a cluster.
ClusterIds(cluster) == {mindHeap[c].id : c \in cluster}

\* C27: the clusters returned by clusterConcepts are the connected
\* components of the mind model: every concept id is in exactly one
\* cluster, and two ids are in the same cluster exactly when a chain of
\* relationship edges, taken in either direction, connects them.
C27_ClustersAreComponents ==
  lastCall.op = "mind.clusterConcepts" =>
    /\ \A x \in MindConceptIds :
         Cardinality({k \in 1..Len(lastCall.result) :
                        x \in ClusterIds(lastCall.result[k].cluster)}) = 1
    /\ \A x \in MindConceptIds, y \in MindConceptIds :
         (\E k \in 1..Len(lastCall.result) :
            {x, y} \subseteq ClusterIds(lastCall.result[k].cluster))
           <=> MindConnected(x, y)

====
